---- MODULE Spec2Model ----
(***************************************************************************)
(* Exchange execution engine of the trading backend:                       *)
(* LiveTradingEngine (bybit_live_trading_system.py) driving the exchange   *)
(* through BybitAPIClient, with ExtremeMarketProtection                    *)
(* (ai_prompts_manager.py) as circuit breaker.                             *)
(*                                                                         *)
(* Units.  Prices are integers in cents (0.01 USDT), quantities in         *)
(* thousandths of a contract, position-size fractions in per-mille,        *)
(* balances in whole USDT, time in minutes.  The policy's Decisions are    *)
(* well-formed records and the exchange's replies parse, so the loop's     *)
(* exception handler is not entered.                                       *)
(***************************************************************************)
EXTENDS Integers, Sequences, FiniteSets, TLC

VARIABLES
    pc,                   \* position of the trading-loop thread in _trading_loop
    is_running,           \* self.is_running / not stop_event.is_set()
    now,                  \* time.time(), in minutes
    current_position,     \* self.current_position: "None", "Buy" or "Sell"
    current_symbol,       \* self.current_symbol: "None" or an AI-format symbol
    pending_limit_orders, \* self.pending_limit_orders: order id -> order_info
    total_trades,         \* self.total_trades
    successful_trades,    \* self.successful_trades
    failed_trades,        \* self.failed_trades
    recent_stop_losses,   \* extreme_protection.recent_stop_losses (timestamps)
    decision,             \* the Decision being executed by _execute_decision
    todo,                 \* orders still to visit in _check_pending_limit_orders
    orders_to_remove,     \* orders_to_remove of _check_pending_limit_orders
    exPos,                \* exchange: net position per symbol (one-way mode)
    exOrders,             \* exchange: resting limit orders
    nextOrderId,          \* exchange: next order id it will hand out
    trace,                \* what the engine did in the current loop iteration
    lastOp,               \* the engine operation that completed last
    first_balance_today,  \* history: the first balance the loop read today
    daily_loss_seen,      \* history: a balance over 15% under it was read today
    last_trailing_stop_check, \* self.last_trailing_stop_check
    trailing_stop_updates,    \* self.trailing_stop_updates
    exEntry,              \* exchange: avgPrice of the held position
    exStop,               \* exchange: stopLoss of the held position (0: none)
    peak_balance,         \* self.peak_balance
    drawdown_analysis_triggered,  \* self.drawdown_analysis_triggered
    state,                \* manager: self.state
    stop_event,           \* manager: self.stop_event.is_set()
    trading_system,       \* manager: self.trading_system ("None" or "engine")
    trading_thread,       \* manager: self.trading_thread (0: None)
    threads,              \* every thread start() has created: where it is
    callers               \* the request threads: where each is in its call

vars == <<pc, is_running, now, current_position, current_symbol,
          pending_limit_orders, total_trades, successful_trades, failed_trades,
          recent_stop_losses, decision, todo, orders_to_remove,
          exPos, exOrders, nextOrderId, trace, lastOp,
          first_balance_today, daily_loss_seen,
          last_trailing_stop_check, trailing_stop_updates, exEntry, exStop,
          peak_balance, drawdown_analysis_triggered,
          state, stop_event, trading_system, trading_thread, threads, callers>>

\* the drawdown watchdog's fields
drawdownVars == <<peak_balance, drawdown_analysis_triggered>>

\* the fields of the manager that owns the engine, and its threads
managerVars == <<state, stop_event, trading_system, trading_thread, threads,
                 callers>>

\* what is followed outside the loop's own fields: the day's balances, the
\* trailing stop, the drawdown watchdog and the manager
watchVars == <<first_balance_today, daily_loss_seen,
               last_trailing_stop_check, trailing_stop_updates, exEntry, exStop,
               drawdownVars, managerVars>>

engineVars == <<current_position, current_symbol, pending_limit_orders,
                total_trades, successful_trades, failed_trades,
                recent_stop_losses>>

exchangeVars == <<exPos, exOrders, nextOrderId>>

-----------------------------------------------------------------------------
(* Bounds of the model *)

MaxThreads == 2        \* threads one manager creates
MaxTime == 10          \* the loop is followed for this many minutes
MaxOrders == 2         \* opening orders are followed up to this order id
MaxFailed == 1         \* rejections of well-formed orders followed
MaxHours == 8          \* the stop-loss detector is followed for this many hours
MaxStops == 4          \* stop-losses recorded before the detector is left alone

(* Program constants *)

trading_interval == 3          \* 180 s
limit_order_timeout == 5       \* 300 s
cooldown_minutes == 10         \* time.sleep(600)
min_balance == 10
min_position_pct == 30         \* 0.03
max_position_pct == 300        \* 0.30
max_leverage == 15
default_position_size == 150   \* decision.get('position_size', 0.15)
default_leverage == 15         \* decision.get('leverage', 15)
max_stops_in_period == 3
trailing_stop_check_interval == 1   \* 60 s
use_trailing_stop == TRUE
stop_loss_window == 240        \* 4 hours

None == "None"
\* an API helper returned None: no list, no number, no order id
NoList == [ok |-> FALSE, list |-> << >>]
NoNumber == -1
NoOrderId == 0
Reply(l) == [ok |-> TRUE, list |-> l]

-----------------------------------------------------------------------------
(* Symbols.  The policy names instruments "<SYM>_PERPETUAL"; the exchange   *)
(* names them "<SYM>".                                                      *)

AISymbols == {"BTCUSDT_PERPETUAL", "ETHUSDT_PERPETUAL"}

\* symbol.replace('_PERPETUAL', '')
ToBybit(s) ==
    CASE s = "BTCUSDT_PERPETUAL" -> "BTCUSDT"
      [] s = "ETHUSDT_PERPETUAL" -> "ETHUSDT"
      [] s = "SOLUSDT_PERPETUAL" -> "SOLUSDT"
      [] OTHER -> s

\* pos.get('symbol', '') + '_PERPETUAL'
ToAI(b) ==
    CASE b = "BTCUSDT" -> "BTCUSDT_PERPETUAL"
      [] b = "ETHUSDT" -> "ETHUSDT_PERPETUAL"
      [] b = "SOLUSDT" -> "SOLUSDT_PERPETUAL"

BybitSymbols == {ToBybit(s) : s \in AISymbols}

\* self.trading_rules, as loaded once by _load_trading_rules
trading_rules(b) ==
    CASE b = "BTCUSDT" -> [qty_step |-> 1, min_order_qty |-> 1,
                           max_order_qty |-> 100000, min_order_amt |-> 0,
                           max_order_amt |-> 0, tick_size |-> 10,
                           min_price |-> 10, max_price |-> 19999980,
                           status |-> "Trading", unified_margin_trade |-> TRUE]
      [] b = "ETHUSDT" -> [qty_step |-> 10, min_order_qty |-> 10,
                           max_order_qty |-> 1000000, min_order_amt |-> 0,
                           max_order_amt |-> 0, tick_size |-> 1,
                           min_price |-> 1, max_price |-> 19999998,
                           status |-> "Trading", unified_margin_trade |-> TRUE]
      [] OTHER -> [qty_step |-> 100, min_order_qty |-> 100,
                   max_order_qty |-> 1000000, min_order_amt |-> 0,
                   max_order_amt |-> 0, tick_size |-> 1,
                   min_price |-> 1, max_price |-> 1999998,
                   status |-> "Trading", unified_margin_trade |-> TRUE]

-----------------------------------------------------------------------------
(* Arithmetic helpers *)

Min(a, b) == IF a < b THEN a ELSE b
Max(a, b) == IF a > b THEN a ELSE b
Abs(a) == IF a < 0 THEN -a ELSE a

\* the quotient always stepped up by one
PyRoundPastQuotient(n, d) == n \div d + 1

\* Python round(n / d) for n >= 0, d > 0: round half to even
PyRound(n, d) ==
    LET q == n \div d
        r == n % d
    IN  IF 2 * r < d THEN q
        ELSE IF 2 * r > d THEN q + 1
        ELSE IF q % 2 = 0 THEN q ELSE q + 1

\* Python int(n / d) for n >= 0, d > 0
PyInt(n, d) == n \div d

\* the smallest element of a non-empty set of integers
SetMin(S) == CHOOSE x \in S : \A y \in S : x <= y

-----------------------------------------------------------------------------
(* Numeric formatting per instrument rule *)

PriceScale == 100      \* cents per USDT: a tick of 100 is tick_size = 1
QtyScale == 1000       \* quantity units per contract: a step of 1000 is 1

\* _format_price under the rule set `rules`: price in cents, result in cents
FormatPriceBy(rules, price) ==
    LET tick == rules.tick_size
        raw == IF tick >= PriceScale
                 THEN PyInt(price, tick) * tick
                 ELSE PyRound(price, tick) * tick
        lo == IF raw < rules.min_price THEN rules.min_price ELSE raw
    IN  IF lo > rules.max_price THEN rules.max_price ELSE lo

\* _format_price(symbol, price), with rules = self.trading_rules[symbol]
FormatPrice(b, price) == FormatPriceBy(trading_rules(b), price)

\* _format_quantity under the rule set `rules`, for qty = num / den quantity
\* units
FormatQuantityBy(rules, num, den) ==
    LET step == rules.qty_step
        raw == IF step >= QtyScale
                 THEN PyInt(num, den * step) * step
                 ELSE PyRound(num, den * step) * step
        lo == IF raw < rules.min_order_qty THEN rules.min_order_qty ELSE raw
    IN  IF lo > rules.max_order_qty THEN rules.max_order_qty ELSE lo

\* _format_quantity(symbol, qty), with rules = self.trading_rules[symbol]
FormatQuantity(b, num, den) == FormatQuantityBy(trading_rules(b), num, den)

\* _validate_order(symbol, qty, price): TRUE when the order passes the rules
ValidateOrder(b, qty, price) ==
    LET rules == trading_rules(b)
        order_value == qty * price     \* in quantity units x cents
        amt_scale == QtyScale * PriceScale
    IN  /\ rules.status = "Trading"
        /\ rules.unified_margin_trade
        /\ qty >= rules.min_order_qty
        /\ qty <= rules.max_order_qty
        /\ ~(rules.min_order_amt > 0 /\ order_value < rules.min_order_amt * amt_scale)
        /\ ~(rules.max_order_amt > 0 /\ order_value > rules.max_order_amt * amt_scale)
        /\ price >= rules.min_price
        /\ price <= rules.max_price

\* stop_pct < 0.3, for stop_pct = dist / entry * 100
StopTooClose(dist, entry) == dist * 1000 < 3 * entry

\* the upper limit with the distance left as a fraction, not a percentage
StopTooFarAsFraction(dist, entry) == dist > 20 * entry

\* stop_pct > 20.0
StopTooFar(dist, entry) == dist * 100 > 20 * entry

\* the validation with the SHORT branch missing its side test
ValidateStopLossTakeProfitLongOnly(action, entry, stop_loss, take_profit) ==
    IF action = "LONG"
      THEN /\ (stop_loss > 0 =>
                 /\ ~(stop_loss >= entry)
                 /\ ~StopTooClose(Abs(entry - stop_loss), entry)
                 /\ ~StopTooFar(Abs(entry - stop_loss), entry))
           /\ ((Len(take_profit) > 0 /\ take_profit[1] > 0) =>
                 ~(take_profit[1] <= entry))
    ELSE IF action = "SHORT"
      THEN /\ (stop_loss > 0 =>
                 /\ ~StopTooClose(Abs(stop_loss - entry), entry)
                 /\ ~StopTooFar(Abs(stop_loss - entry), entry))
           /\ ((Len(take_profit) > 0 /\ take_profit[1] > 0) =>
                 ~(take_profit[1] >= entry))
    ELSE TRUE

\* _validate_stop_loss_take_profit(action, entry_price, stop_loss, take_profit)
ValidateStopLossTakeProfit(action, entry, stop_loss, take_profit) ==
    IF action = "LONG"
      THEN /\ (stop_loss > 0 =>
                 /\ ~(stop_loss >= entry)
                 /\ ~StopTooClose(Abs(entry - stop_loss), entry)
                 /\ ~StopTooFar(Abs(entry - stop_loss), entry))
           /\ ((Len(take_profit) > 0 /\ take_profit[1] > 0) =>
                 ~(take_profit[1] <= entry))
    ELSE IF action = "SHORT"
      THEN /\ (stop_loss > 0 =>
                 /\ ~(stop_loss <= entry)
                 /\ ~StopTooClose(Abs(stop_loss - entry), entry)
                 /\ ~StopTooFar(Abs(stop_loss - entry), entry))
           /\ ((Len(take_profit) > 0 /\ take_profit[1] > 0) =>
                 ~(take_profit[1] >= entry))
    ELSE TRUE

-----------------------------------------------------------------------------
(* The exchange.  One-way mode: one net position per symbol.  A market      *)
(* order that is accepted fills at once; a limit order that is accepted     *)
(* rests until it fills or is cancelled.                                    *)

Flat == [side |-> "", size |-> 0]

Opposite(side) == IF side = "Buy" THEN "Sell" ELSE "Buy"

\* the net position after `qty` of `side` trades against position `p`
ApplyFill(p, side, qty) ==
    IF p.size = 0 THEN [side |-> side, size |-> qty]
    ELSE IF p.side = side THEN [side |-> side, size |-> p.size + qty]
    ELSE IF qty < p.size THEN [side |-> p.side, size |-> p.size - qty]
    ELSE IF qty = p.size THEN Flat
    ELSE [side |-> side, size |-> qty - p.size]

\* would the exchange accept this order (POST /v5/order/create): a
\* reduce-only order needs a position to reduce
Accepts(E, b, side, qty, reduce_only) ==
    /\ qty > 0
    /\ IF reduce_only
         THEN E.pos[b].size > 0 /\ E.pos[b].side = Opposite(side)
         ELSE E.nid <= MaxOrders

\* one entry of GET /v5/position/list
PosEntry(E, b) == [symbol |-> b, side |-> E.pos[b].side, size |-> E.pos[b].size]

\* the lists get_positions(settle_coin="USDT") can return: no reply, the
\* open positions in either order, or an entry for every symbol
SettleReplies(E) ==
    LET open == {b \in BybitSymbols : E.pos[b].size > 0}
        Lists(S) == {l \in [1..Cardinality(S) -> S] :
                        \A i, j \in 1..Cardinality(S) : i # j => l[i] # l[j]}
    IN  {NoList}
        \cup {Reply([i \in 1..Cardinality(open) |-> PosEntry(E, l[i])]) :
                 l \in Lists(open)}
        \cup {Reply([i \in 1..Cardinality(BybitSymbols) |-> PosEntry(E, l[i])]) :
                 l \in Lists(BybitSymbols)}

\* the lists get_positions(symbol=b) can return: no reply, or the entry of b
SymbolReplies(E, b) == {NoList, Reply(<<PosEntry(E, b)>>)}

\* the balances get_wallet_balance can report (NoNumber: the call failed)
WalletReplies == {NoNumber, 5, 1000}

\* get_ticker(b)['lastPrice'] in cents (NoNumber: the call failed)
LastPrice(b) == IF b = "BTCUSDT" THEN 5000000 ELSE 2500000

TickerReplies(b) == {NoNumber, LastPrice(b)}

-----------------------------------------------------------------------------
(* Engine operations.  An operation takes the engine-and-exchange state E   *)
(* and the replies the exchange gives to its calls, and returns the state   *)
(* it leaves.  E.tr is the log of the current loop iteration.               *)

Log(E, e) == [E EXCEPT !.tr = Append(E.tr, e)]

\* api.place_order(...): the order id, or NoOrderId when the call fails
PlaceOrder(E, req, ok) ==
    IF (ok \/ E.ft >= MaxFailed)
       /\ Accepts(E, req.symbol, req.side, req.qty, req.reduce_only)
      THEN LET id == E.nid
               filled == [E EXCEPT !.pos[req.symbol] =
                             ApplyFill(E.pos[req.symbol], req.side, req.qty)]
               resting == [E EXCEPT !.ord = E.ord \cup
                             {[id |-> id, symbol |-> req.symbol, side |-> req.side,
                               qty |-> req.qty, price |-> req.price]}]
               E1 == IF req.order_type = "Market" THEN filled ELSE resting
           IN  [E |-> Log([E1 EXCEPT !.nid = id + 1],
                          [op |-> "place", req |-> req, id |-> id]),
                id |-> id]
      ELSE [E |-> Log(E, [op |-> "place", req |-> req, id |-> NoOrderId]),
            id |-> NoOrderId]

\* api.cancel_order(symbol, order_id): TRUE when the exchange answered OK
CancelOrder(E, b, id, ok) ==
    LET known == \E o \in E.ord : o.id = id
        done == ok /\ known
        E1 == IF done THEN [E EXCEPT !.ord = {o \in E.ord : o.id # id}] ELSE E
    IN  [E |-> Log(E1, [op |-> "cancel", id |-> id, ok |-> done]), ok |-> done]

\* _get_position_info(): refreshes current_position / current_symbol from
\* the exchange and returns the wallet balance
GetPositionInfo(E, positions, wallet) ==
    LET balance == IF wallet = NoNumber THEN 0 ELSE wallet
        truthy == positions.ok /\ Len(positions.list) > 0
        held == IF truthy
                  THEN {i \in 1..Len(positions.list) : positions.list[i].size > 0}
                  ELSE {}
        pos == positions.list[SetMin(held)]
        E1 == IF truthy
                THEN IF held # {}
                       THEN [E EXCEPT !.cp = pos.side, !.cs = ToAI(pos.symbol)]
                       ELSE E
                ELSE [E EXCEPT !.cp = None, !.cs = None]
    IN  [E |-> Log(E1, [op |-> "refresh", held |-> E1.cp,
                            held_symbol |-> E1.cs]),
         balance |-> balance]

\* the order_info that _open_position stores for a limit order
OrderInfo(b, side, price, qty, d, symbol, t) ==
    [symbol |-> b, create_time |-> t, side |-> side, price |-> price,
     qty |-> qty, stop_loss |-> d.stop_loss, take_profit |-> d.take_profit,
     ai_symbol |-> symbol]

\* _open_position(action, symbol, position_size_pct, leverage, ...,
\*                order_type, entry_price, stop_loss, take_profit)
OpenPosition(E, d, position_size_pct, leverage, t, ticker, positions, wallet, ok) ==
    LET bybit_symbol == ToBybit(d.target_symbol)
        E0 == Log(E, [op |-> "call_open", action |-> d.action,
                      symbol |-> d.target_symbol,
                      held |-> E.cp, held_symbol |-> E.cs])
    IN
    IF ticker = NoNumber THEN E0
    ELSE
    LET current_price == ticker
        info == GetPositionInfo(E0, positions, wallet)
        E1 == info.E
        balance == info.balance
    IN
    IF balance < min_balance THEN E1
    ELSE
    LET \* balance * position_size_pct * leverage, in thousandths of a USDT
        position_value == balance * position_size_pct * leverage
        \* position_value / current_price, in quantity units, as num / den
        qty_num == position_value * PriceScale
        qty_den == current_price
        qty == FormatQuantity(bybit_symbol, qty_num, qty_den)
        E2 == Log(E1, [op |-> "sizing", balance |-> balance,
                       price |-> current_price,
                       position_value |-> position_value,
                       qty_num |-> qty_num, qty_den |-> qty_den])
    IN
    IF ~ValidateOrder(bybit_symbol, qty, current_price) THEN E2
    ELSE
    LET side == IF d.action = "LONG" THEN "Buy" ELSE "Sell"
        market == d.order_type = "Market" \/ d.entry_price = 0
        order_price == IF market THEN current_price ELSE d.entry_price
        order_type == IF market THEN "Market" ELSE "Limit"
    IN
    IF ~ValidateStopLossTakeProfit(d.action, order_price, d.stop_loss, d.take_profit)
      THEN Log(E2, [op |-> "reject_stops", action |-> d.action])
    ELSE
    LET req == [origin |-> "open",
                symbol |-> bybit_symbol, side |-> side, order_type |-> order_type,
                qty |-> qty, reduce_only |-> FALSE,
                price |-> IF order_type = "Limit"
                            THEN FormatPrice(bybit_symbol, order_price) ELSE 0,
                stop_loss |-> IF d.stop_loss > 0
                                THEN FormatPrice(bybit_symbol, d.stop_loss) ELSE 0,
                take_profit |-> IF Len(d.take_profit) > 0 /\ d.take_profit[1] > 0
                                  THEN FormatPrice(bybit_symbol, d.take_profit[1])
                                  ELSE 0,
                \* what the order was validated against
                action |-> d.action, entry |-> order_price,
                raw_stop_loss |-> d.stop_loss, raw_take_profit |-> d.take_profit]
        placed == PlaceOrder(E2, req, ok)
        E3 == placed.E
        order_id == placed.id
    IN
    IF order_id # NoOrderId
      THEN LET E4 == [E3 EXCEPT !.tt = E3.tt + 1, !.st = E3.st + 1]
               E5 == IF order_type = "Limit"
                       THEN [E4 EXCEPT !.pend = [i \in DOMAIN E4.pend \cup {order_id} |->
                                IF i = order_id
                                  THEN OrderInfo(bybit_symbol, side, order_price, qty,
                                                 d, d.target_symbol, t)
                                  ELSE E4.pend[i]]]
                       ELSE E4
           IN  [E5 EXCEPT !.cp = side, !.cs = d.target_symbol]
      ELSE [E3 EXCEPT !.ft = E3.ft + 1]

\* ExtremeMarketProtection.record_stop_loss(timestamp)
RecordStopLoss(stops, t) == Append(stops, t)

\* _close_position(reason).  After the order is accepted the method reads
\* the order history, the ticker and _get_position_info() for the journal
\* and the drawdown check, and then clears the position fields whatever
\* those reads returned.
ClosePosition(E, reason, positions, ok) ==
    IF E.cp = None \/ E.cs = None THEN E
    ELSE
    LET bybit_symbol == ToBybit(E.cs)
        E0 == Log(E, [op |-> "call_close", reason |-> reason])
    IN
    IF ~positions.ok \/ Len(positions.list) = 0
      THEN [Log(E0, [op |-> "no_position", replied |-> positions.ok])
              EXCEPT !.cp = None, !.cs = None]
    ELSE
    LET pos == positions.list[1]
        qty == pos.size
    IN
    IF qty = 0
      THEN [Log(E0, [op |-> "no_position", replied |-> TRUE])
              EXCEPT !.cp = None, !.cs = None]
    ELSE
    LET side == IF E.cp = "Buy" THEN "Sell" ELSE "Buy"
        req == [origin |-> "close",
                symbol |-> bybit_symbol, side |-> side, order_type |-> "Market",
                qty |-> qty, reduce_only |-> TRUE, price |-> 0,
                stop_loss |-> 0, take_profit |-> 0]
        placed == PlaceOrder(E0, req, ok)
        E1 == placed.E
    IN
    IF placed.id # NoOrderId
      THEN [E1 EXCEPT !.tt = E1.tt + 1, !.st = E1.st + 1,
                      !.cp = None, !.cs = None]
      ELSE [E1 EXCEPT !.ft = E1.ft + 1]

\* _emergency_close_position(reason)
EmergencyClosePosition(E, reason, positions, ok) ==
    ClosePosition(E, reason, positions, ok)

-----------------------------------------------------------------------------
(* Pending limit orders *)

\* what get_open_orders(b) can return: no reply, or the resting orders of b
OpenOrdersReplies(E, b) == {NoList, Reply({o \in E.ord : o.symbol = b})}

\* _get_order_status(symbol, order_id).  Orders that rest are reported New.
GetOrderStatus(b, order_id, orders) ==
    IF orders.ok /\ orders.list # {} /\ (\E o \in orders.list : o.id = order_id)
      THEN "New"
      ELSE "Filled"

\* _cancel_and_place_market_order(order_id, order_info)
CancelAndPlaceMarketOrder(E, order_id, order_info, cancel_ok, place_ok) ==
    LET cancelled == CancelOrder(E, order_info.symbol, order_id, cancel_ok)
        req == [origin |-> "cancel_and_market",
                symbol |-> order_info.symbol, side |-> order_info.side,
                order_type |-> "Market", qty |-> order_info.qty,
                reduce_only |-> FALSE, price |-> 0,
                stop_loss |-> 0, take_profit |-> 0]
    IN  IF ~cancelled.ok THEN cancelled.E
        ELSE PlaceOrder(cancelled.E, req, place_ok).E

\* _modify_limit_order_price(order_id, order_info, suggested_price):
\* the state it leaves and the new price it returns (0 for None)
ModifyLimitOrderPrice(E, order_id, order_info, suggested_price, t, ticker, cancel_ok, orders, place_ok) ==
    IF ticker = NoNumber THEN [E |-> E, new_price |-> 0]
    ELSE
    LET current_price == ticker
        new_price == IF suggested_price # 0 THEN suggested_price
                     ELSE IF order_info.side = "Buy"
                            THEN (current_price * 98) \div 100
                            ELSE (current_price * 102) \div 100
        new_price_str == FormatPrice(order_info.symbol, new_price)
        cancelled == CancelOrder(E, order_info.symbol, order_id, cancel_ok)
        E1 == cancelled.E
    IN
    IF ~cancelled.ok /\ GetOrderStatus(order_info.symbol, order_id, orders) = "Filled"
      THEN [E |-> E1, new_price |-> 0]
    ELSE
    LET req == [origin |-> "modify",
                symbol |-> order_info.symbol, side |-> order_info.side,
                order_type |-> "Limit", qty |-> order_info.qty,
                reduce_only |-> FALSE, price |-> new_price_str,
                stop_loss |-> IF order_info.stop_loss # 0
                                THEN FormatPrice(order_info.symbol, order_info.stop_loss)
                                ELSE 0,
                take_profit |-> IF Len(order_info.take_profit) > 0
                                  THEN FormatPrice(order_info.symbol,
                                                   order_info.take_profit[1])
                                  ELSE 0]
        placed == PlaceOrder(E1, req, place_ok)
        E2 == placed.E
        new_order_id == placed.id
    IN
    IF new_order_id # NoOrderId
      THEN [E |-> [E2 EXCEPT !.pend =
                     [i \in (DOMAIN E2.pend \ {order_id}) \cup {new_order_id} |->
                        IF i = new_order_id
                          THEN [order_info EXCEPT !.price = new_price,
                                                  !.create_time = t]
                          ELSE E2.pend[i]]],
            new_price |-> new_price]
      ELSE [E |-> E2, new_price |-> 0]

\* every answer taking the order off the monitoring list
RemovedAfterAnyAnswer(ai_action) == TRUE

\* orders_to_remove.append(order_id): after cancel_and_market and cancel
RemovedAfter(ai_action) == ai_action \in {"cancel_and_market", "cancel"}

\* for order_id in orders_to_remove: self.pending_limit_orders.pop(order_id)
RemoveHandled(pend, handled) == [id \in DOMAIN pend \ handled |-> pend[id]]

\* what _ask_ai_about_limit_order can return for an order at `price`
LimitOrderAnswers(price) ==
    {[action |-> "continue_wait", new_price |-> 0],
     [action |-> "cancel_and_market", new_price |-> 0],
     [action |-> "cancel", new_price |-> 0],
     [action |-> "modify", new_price |-> 0],
     [action |-> "modify", new_price |-> price + 5000]}

-----------------------------------------------------------------------------
(* ExtremeMarketProtection.  A market snapshot m carries the latest 15m     *)
(* candle (open, close, low, volume, atr), the 4h volume and atr, and the   *)
(* minute of the hour at which it was taken.                                *)

\* check_flash_crash(market_data)
CheckFlashCrash(m) ==
    /\ m.open > 0
    /\ \/ (m.open - m.close) * 100 > 8 * m.open
       \/ (m.open - m.low) * 100 > 12 * m.open

\* check_liquidity_crisis(market_data, symbol); expected = volume_4h / 16,
\* and the code's factor 1 - 0.70 evaluates to 0.30000000000000004
CheckLiquidityCrisis(m) ==
    /\ m.volume_4h > 0
    /\ ~(m.minute % 15 < 5)
    /\ m.volume * 160 <= m.volume_4h * 3
    /\ ~(m.volume * 160 < m.volume_4h)

\* check_volatility_surge(market_data)
CheckVolatilitySurge(m) ==
    m.atr_4h > 0 /\ m.atr * 100 > m.atr_4h * 150

\* the multi-asset check asking for three fallen symbols
CheckMultiAssetCrashAllThree(all_market_data) ==
    LET crashed == {s \in DOMAIN all_market_data :
                       /\ all_market_data[s].open > 0
                       /\ (all_market_data[s].open - all_market_data[s].close) * 100
                            > 5 * all_market_data[s].open}
    IN  Cardinality(crashed) >= 3

\* check_multi_asset_crash(all_market_data)
CheckMultiAssetCrash(all_market_data) ==
    LET crashed == {s \in DOMAIN all_market_data :
                       /\ all_market_data[s].open > 0
                       /\ (all_market_data[s].open - all_market_data[s].close) * 100
                            > 5 * all_market_data[s].open}
    IN  Cardinality(crashed) >= 2

\* the pruning with a timestamp exactly one window old kept
PruneStopsKeepsBoundary(stops, t) == SelectSeq(stops, LAMBDA x : x >= t - stop_loss_window)

\* the pruning of check_consecutive_stops(timestamp)
PruneStops(stops, t) == SelectSeq(stops, LAMBDA x : x > t - stop_loss_window)

\* check_consecutive_stops(timestamp), on the pruned list
CheckConsecutiveStops(stops, t) == Len(PruneStops(stops, t)) >= max_stops_in_period

\* comprehensive_check(all_market_data, current_balance, timestamp,
\*                     has_position, current_symbol): the reasons it returns
ComprehensiveCheck(all_market_data, t, has_position, symbol, stops) ==
    LET onHeld == has_position /\ symbol # None /\ symbol \in DOMAIN all_market_data
    IN  (IF CheckMultiAssetCrash(all_market_data) THEN {"multi_asset_crash"} ELSE {})
        \cup (IF onHeld /\ CheckFlashCrash(all_market_data[symbol])
                THEN {"flash_crash"} ELSE {})
        \cup (IF onHeld /\ CheckLiquidityCrisis(all_market_data[symbol])
                THEN {"liquidity_crisis"} ELSE {})
        \cup (IF onHeld /\ CheckVolatilitySurge(all_market_data[symbol])
                THEN {"volatility_surge"} ELSE {})
        \cup (IF CheckConsecutiveStops(stops, t) THEN {"consecutive_stops"} ELSE {})

Calm == [open |-> 1000, close |-> 1000, low |-> 995, volume |-> 100,
         volume_4h |-> 1600, atr |-> 10, atr_4h |-> 10, minute |-> 7]

\* the snapshots get_realtime_data can return in the loop
Snapshots ==
    {Calm,
     [Calm EXCEPT !.close = 940, !.low = 940],
     [Calm EXCEPT !.close = 990, !.low = 870],
     [Calm EXCEPT !.volume = 20],
     [Calm EXCEPT !.atr = 16]}

\* all_market_data: the symbols whose data could be fetched, not none.
\* One symbol's snapshot ranges over Snapshots, the others are calm or fall
\* with it.
AllMarketData ==
    {[s \in S |-> IF s = lead THEN m ELSE IF together THEN m ELSE Calm] :
        S \in (SUBSET AISymbols) \ {{}}, lead \in AISymbols, m \in Snapshots,
        together \in BOOLEAN}

-----------------------------------------------------------------------------
(* Decisions of the policy *)

HoldDecision ==
    [action |-> "HOLD", target_symbol |-> None,
     position_size |-> default_position_size, leverage |-> default_leverage,
     order_type |-> "Market", entry_price |-> 0, stop_loss |-> 0,
     take_profit |-> <<>>]

\* a stop 2% from the last price, on the losing side of the action
StopAt(action, b) ==
    IF action = "LONG" THEN (LastPrice(b) * 98) \div 100
    ELSE (LastPrice(b) * 102) \div 100

\* a limit entry 1% from the last price, on the resting side
LimitEntry(action, b) ==
    IF action = "LONG" THEN (LastPrice(b) * 99) \div 100
    ELSE (LastPrice(b) * 101) \div 100

\* the Decisions the policy returns in the loop: both directions on one
\* symbol and one direction on the other
LoopDecisions ==
    {HoldDecision, [HoldDecision EXCEPT !.action = "CLOSE"]}
    \cup
    {[action |-> t[1], target_symbol |-> t[2], position_size |-> 100,
      leverage |-> 10, order_type |-> ot,
      entry_price |-> IF ot = "Limit" THEN LimitEntry(t[1], ToBybit(t[2])) ELSE 0,
      stop_loss |-> StopAt(t[1], ToBybit(t[2])), take_profit |-> <<>>] :
        t \in {<<"LONG", "BTCUSDT_PERPETUAL">>, <<"SHORT", "BTCUSDT_PERPETUAL">>,
                <<"LONG", "ETHUSDT_PERPETUAL">>},
        ot \in {"Market", "Limit"}}

\* position_size_pct with the lower clamp only
PositionSizePctNoCap(d) == Max(d.position_size, min_position_pct)

\* position_size_pct of _execute_decision
PositionSizePct(d) == Min(Max(d.position_size, min_position_pct), max_position_pct)

\* leverage of _execute_decision
Leverage(d) == Min(Max(d.leverage, 1), max_leverage)

\* has_pending_order of _execute_decision
HasPendingOrder(pend, d) ==
    \E id \in DOMAIN pend :
        /\ pend[id].symbol = ToBybit(d.target_symbol)
        /\ pend[id].side = (IF d.action = "LONG" THEN "Buy" ELSE "Sell")

\* need_switch of _execute_decision
NeedSwitch(cp, cs, d) ==
    \/ cs # d.target_symbol
    \/ /\ cs = d.target_symbol
       /\ \/ (d.action = "LONG" /\ cp = "Short")
          \/ (d.action = "SHORT" /\ cp = "Buy")

-----------------------------------------------------------------------------
(* The state as one record, and back *)

\* the request threads that call the manager
RequestThreads == {"r1", "r2"}

\* the threads start() can create, in the order it creates them
ThreadIds == 1..MaxThreads

\* TradingSystemState
STOPPED == "stopped"
STARTING == "starting"
RUNNING == "running"
STOPPING == "stopping"
ERROR == "error"

\* a thread start() has not created yet
Unborn == [phase |-> "unborn", entered |-> STOPPED]

\* a request thread that is in no call of the manager
Idle == [op |-> "idle", at |-> "idle", entered |-> STOPPED]

\* TradingSystemManager.__init__ / UserTradingSystem.__init__
ManagerInit ==
    /\ state = STOPPED
    /\ stop_event = FALSE
    /\ trading_system = None
    /\ trading_thread = 0
    /\ threads = [t \in ThreadIds |-> Unborn]
    /\ callers = [r \in RequestThreads |-> Idle]

\* nothing has been read yet today, and no trailing stop was checked:
\* last_trailing_stop_check = 0 lies more than an interval before time.time()
WatchInit ==
    /\ first_balance_today = NoNumber
    /\ daily_loss_seen = FALSE
    /\ last_trailing_stop_check = now - trailing_stop_check_interval
    /\ trailing_stop_updates = 0
    /\ exEntry = 0
    /\ exStop = 0
    /\ peak_balance = 0
    /\ drawdown_analysis_triggered = FALSE
    /\ ManagerInit

Eng == [cp |-> current_position, cs |-> current_symbol,
        pend |-> pending_limit_orders, tt |-> total_trades,
        st |-> successful_trades, ft |-> failed_trades,
        pos |-> exPos, ord |-> exOrders, nid |-> nextOrderId, tr |-> trace]

Commit(E) ==
    /\ current_position' = E.cp
    /\ current_symbol' = E.cs
    /\ pending_limit_orders' = E.pend
    /\ total_trades' = E.tt
    /\ successful_trades' = E.st
    /\ failed_trades' = E.ft
    /\ exPos' = E.pos
    /\ exOrders' = E.ord
    /\ nextOrderId' = E.nid
    /\ trace' = E.tr

\* the engine as __init__ and start() leave it, on an account with no
\* position and no order
Init ==
    /\ pc = "top"
    /\ is_running = TRUE
    /\ now = 0
    /\ current_position = None
    /\ current_symbol = None
    /\ pending_limit_orders = << >>
    /\ total_trades = 0
    /\ successful_trades = 0
    /\ failed_trades = 0
    /\ recent_stop_losses = << >>
    /\ decision = HoldDecision
    /\ todo = {}
    /\ orders_to_remove = {}
    /\ exPos = [b \in BybitSymbols |-> Flat]
    /\ exOrders = {}
    /\ nextOrderId = 1
    /\ trace = << >>
    /\ lastOp = "init"
    /\ WatchInit

-----------------------------------------------------------------------------
(* The trading loop, _trading_loop, one action per step of an iteration *)

\* while self.is_running and not self.stop_event.is_set(): a new iteration
LoopTop ==
    /\ pc = "top"
    /\ is_running
    /\ pc' = "pending"
    /\ todo' = DOMAIN pending_limit_orders
    /\ orders_to_remove' = {}
    /\ lastOp' = "top"
    /\ UNCHANGED <<is_running, now, engineVars, exchangeVars, decision, trace>>
    /\ UNCHANGED watchVars

\* the loop condition fails: _trading_loop returns
LoopExit ==
    /\ pc = "top"
    /\ ~is_running
    /\ pc' = "done"
    /\ lastOp' = "exit"
    /\ UNCHANGED <<is_running, now, engineVars, exchangeVars, decision, todo,
                   orders_to_remove, trace>>
    /\ UNCHANGED watchVars

\* _check_pending_limit_orders: the body of its for loop, for one order
CheckPendingOrder ==
    /\ pc = "pending"
    /\ todo # {}
    /\ LET order_id == SetMin(todo)
           order_info == pending_limit_orders[order_id]
           wait_time == now - order_info.create_time
       IN
       \E orders \in OpenOrdersReplies(Eng, order_info.symbol) :
       LET order_status == GetOrderStatus(order_info.symbol, order_id, orders)
       IN
       IF order_status = "Filled"
         THEN /\ orders_to_remove' = orders_to_remove \cup {order_id}
              /\ UNCHANGED <<engineVars, exchangeVars, trace>>
       ELSE IF wait_time >= limit_order_timeout
         THEN \E ai_result \in LimitOrderAnswers(order_info.price),
                 ticker \in TickerReplies(order_info.symbol),
                 cancel_ok \in BOOLEAN, place_ok \in BOOLEAN,
                 orders2 \in OpenOrdersReplies(Eng, order_info.symbol) :
              LET E0 == Log(Eng, [op |-> "ask_limit", id |-> order_id,
                                  info |-> order_info,
                                  answer |-> ai_result.action,
                                  new_price |-> ai_result.new_price])
              IN
              /\ CASE ai_result.action = "cancel_and_market" ->
                       Commit(CancelAndPlaceMarketOrder(E0, order_id, order_info,
                                                        cancel_ok, place_ok))
                  [] ai_result.action = "modify" ->
                       Commit(ModifyLimitOrderPrice(E0, order_id, order_info,
                                  ai_result.new_price, now, ticker, cancel_ok,
                                  orders2, place_ok).E)
                  [] ai_result.action = "cancel" ->
                       Commit(CancelOrder(E0, order_info.symbol, order_id,
                                          cancel_ok).E)
                  [] OTHER -> Commit(E0)
              /\ orders_to_remove' =
                   IF RemovedAfter(ai_result.action)
                     THEN orders_to_remove \cup {order_id}
                     ELSE orders_to_remove
       ELSE UNCHANGED <<engineVars, exchangeVars, trace, orders_to_remove>>
    /\ todo' = todo \ {SetMin(todo)}
    /\ lastOp' = "pending"
    /\ UNCHANGED <<pc, is_running, now, recent_stop_losses, decision>>
    /\ UNCHANGED watchVars

\* _check_pending_limit_orders: after the for loop, drop the handled orders
CheckPendingDone ==
    /\ pc = "pending"
    /\ todo = {}
    /\ pending_limit_orders' = RemoveHandled(pending_limit_orders, orders_to_remove)
    /\ orders_to_remove' = {}
    /\ pc' = "data"
    /\ lastOp' = "pending"
    /\ UNCHANGED <<is_running, now, current_position, current_symbol,
                   total_trades, successful_trades, failed_trades,
                   recent_stop_losses, decision, todo, exchangeVars, trace>>
    /\ UNCHANGED watchVars

\* steps 1 and 2 of an iteration: fetch the market data of every symbol;
\* with none, wait for the next round; otherwise _get_position_info()
RefreshState ==
    /\ pc = "data"
    /\ \E got_data \in BOOLEAN :
         IF ~got_data
           THEN /\ pc' = "sleep"
                /\ lastOp' = "nodata"
                /\ UNCHANGED <<engineVars, exchangeVars, trace>>
           ELSE \E positions \in SettleReplies(Eng), wallet \in WalletReplies :
                /\ Commit(GetPositionInfo(Eng, positions, wallet).E)
                /\ pc' = "guard"
                /\ lastOp' = "refresh"
    /\ UNCHANGED <<is_running, now, recent_stop_losses, decision, todo,
                   orders_to_remove>>
    /\ UNCHANGED watchVars

\* step 3 without its `continue`: the iteration goes on to the policy
AfterGuardFallsThrough(should_protect) == "ask"

\* where the iteration goes after step 3: `continue` after the cool-down
\* when the check tripped, on to the policy otherwise
AfterGuard(should_protect) == IF should_protect THEN "cooldown" ELSE "ask"

\* step 3: comprehensive_check; when it trips, close the position if the
\* engine holds one and go to the cool-down
ProtectionCheck ==
    /\ pc = "guard"
    /\ \E all_market_data \in AllMarketData :
       LET reasons == ComprehensiveCheck(all_market_data, now,
                                         current_position # None,
                                         current_symbol, recent_stop_losses)
       IN
       /\ recent_stop_losses' = PruneStops(recent_stop_losses, now)
       /\ IF reasons # {}
            THEN LET E0 == Log(Eng, [op |-> "guard_trip",
                                          held |-> current_position])
                 IN  /\ IF current_position # None
                          THEN \E positions \in
                                    SymbolReplies(Eng, ToBybit(current_symbol)),
                                  ok \in BOOLEAN :
                               /\ Commit(EmergencyClosePosition(E0, "protection",
                                                                positions, ok))
                               /\ lastOp' = "close"
                          ELSE /\ Commit(E0)
                               /\ lastOp' = "guard"
            ELSE /\ Commit(Log(Eng, [op |-> "guard_ok"]))
                 /\ lastOp' = "guard"
       /\ pc' = AfterGuard(reasons # {})
    /\ UNCHANGED <<is_running, now, decision, todo, orders_to_remove>>
    /\ UNCHANGED watchVars

\* the iteration is over: its Decision and its log go out of scope
EndIteration ==
    /\ decision' = HoldDecision
    /\ trace' = << >>
    /\ lastOp' = "sleep"

\* time.sleep(600) after a protection trigger, then the next iteration
Cooldown ==
    /\ pc = "cooldown"
    /\ now + cooldown_minutes <= MaxTime
    /\ now' = now + cooldown_minutes
    /\ pc' = "top"
    /\ EndIteration
    /\ UNCHANGED <<is_running, engineVars, exchangeVars, todo,
                   orders_to_remove>>
    /\ UNCHANGED watchVars

\* step 4: _make_ai_decision_with_logging returns the policy's Decision
AskDecision ==
    /\ pc = "ask"
    /\ \E d \in LoopDecisions :
         /\ (d.action \in {"LONG", "SHORT"} => nextOrderId <= MaxOrders)
         /\ decision' = d
         /\ trace' = Append(trace, [op |-> "ask_decision"])
    /\ pc' = "execute"
    /\ lastOp' = "ask"
    /\ UNCHANGED <<is_running, now, engineVars, exchangeVars, todo,
                   orders_to_remove>>
    /\ UNCHANGED watchVars

\* step 5: _execute_decision(decision), up to its call of _open_position
ExecuteDecision ==
    /\ pc = "execute"
    /\ LET d == decision
           E0 == Log(Eng, [op |-> "execute", action |-> d.action,
                           target |-> d.target_symbol,
                           held |-> current_position,
                           held_symbol |-> current_symbol])
       IN
       CASE d.action = "HOLD" ->
              /\ Commit(E0)
              /\ pc' = "sleep"
              /\ lastOp' = "execute"
         [] d.action = "CLOSE" ->
              IF current_position # None
                THEN \E positions \in SymbolReplies(Eng, ToBybit(current_symbol)),
                        ok \in BOOLEAN :
                     /\ Commit(ClosePosition(E0, "ai_close", positions, ok))
                     /\ pc' = "sleep"
                     /\ lastOp' = "close"
                ELSE /\ Commit(E0)
                     /\ pc' = "sleep"
                     /\ lastOp' = "execute"
         [] d.action \in {"LONG", "SHORT"} ->
              IF HasPendingOrder(pending_limit_orders, d)
                THEN /\ Commit(E0)
                     /\ pc' = "sleep"
                     /\ lastOp' = "execute"
              ELSE IF current_position # None
                      /\ NeedSwitch(current_position, current_symbol, d)
                THEN \E positions \in SymbolReplies(Eng, ToBybit(current_symbol)),
                        ok \in BOOLEAN :
                     /\ Commit(ClosePosition(E0, "switch", positions, ok))
                     /\ pc' = "open"
                     /\ lastOp' = "close"
                ELSE /\ Commit(E0)
                     /\ pc' = "open"
                     /\ lastOp' = "execute"
    /\ UNCHANGED <<is_running, now, recent_stop_losses, decision, todo,
                   orders_to_remove>>
    /\ UNCHANGED watchVars

\* step 5, continued: the _open_position call that ends _execute_decision
OpenStep ==
    /\ pc = "open"
    /\ LET d == decision
       IN  \E ticker \in TickerReplies(ToBybit(d.target_symbol)),
              positions \in SettleReplies(Eng), wallet \in WalletReplies,
              ok \in BOOLEAN :
           Commit(OpenPosition(Eng, d, PositionSizePct(d), Leverage(d), now,
                               ticker, positions, wallet, ok))
    /\ pc' = "sleep"
    /\ lastOp' = "open"
    /\ UNCHANGED <<is_running, now, recent_stop_losses, decision, todo,
                   orders_to_remove>>
    /\ UNCHANGED watchVars

\* step 5.5 (the trailing stop of a held position) reads the exchange and
\* moves the stop there; it writes none of the fields above and is followed
\* in SpecTrail.  Step 2.5 (the drawdown watchdog) writes peak_balance and
\* drawdown_analysis_triggered only and is followed in SpecWatch.
\* step 6: time.sleep(self.trading_interval), then the next iteration
Sleep ==
    /\ pc = "sleep"
    /\ now + trading_interval <= MaxTime
    /\ now' = now + trading_interval
    /\ pc' = "top"
    /\ EndIteration
    /\ UNCHANGED <<is_running, engineVars, exchangeVars, todo,
                   orders_to_remove>>
    /\ UNCHANGED watchVars

-----------------------------------------------------------------------------
(* The environment.  The loop spends its time in the sleeps between       *)
(* iterations; what the exchange does meanwhile is seen at the loop top.    *)

\* a resting limit order fills
OrderFills ==
    /\ pc = "top"
    /\ \E o \in exOrders :
         /\ exPos' = [exPos EXCEPT ![o.symbol] = ApplyFill(@, o.side, o.qty)]
         /\ exOrders' = exOrders \ {o}
    /\ UNCHANGED <<pc, is_running, now, engineVars, decision, todo,
                   orders_to_remove, nextOrderId, trace, lastOp>>
    /\ UNCHANGED watchVars

\* the exchange closes a position: its stop-loss or take-profit triggers
PositionStopped ==
    /\ pc = "top"
    /\ \E b \in BybitSymbols :
         /\ exPos[b].size > 0
         /\ exPos' = [exPos EXCEPT ![b] = Flat]
    /\ UNCHANGED <<pc, is_running, now, engineVars, decision, todo,
                   orders_to_remove, exOrders, nextOrderId, trace, lastOp>>
    /\ UNCHANGED watchVars

\* stop(): is_running = False and stop_event.set(), from another thread
StopRequested ==
    /\ pc = "top"
    /\ is_running
    /\ is_running' = FALSE
    /\ UNCHANGED <<pc, now, engineVars, exchangeVars, decision, todo,
                   orders_to_remove, trace, lastOp>>
    /\ UNCHANGED watchVars

Next ==
    \/ LoopTop
    \/ LoopExit
    \/ CheckPendingOrder
    \/ CheckPendingDone
    \/ RefreshState
    \/ ProtectionCheck
    \/ Cooldown
    \/ AskDecision
    \/ ExecuteDecision
    \/ OpenStep
    \/ Sleep
    \/ OrderFills
    \/ PositionStopped
    \/ StopRequested

Spec == Init /\ [][Next]_vars

-----------------------------------------------------------------------------
(* Single operations.  _execute_decision and _close_position are called in *)
(* a state the loop can hand them, with any Decision the policy can return  *)
(* and any reason a caller can give.                                        *)

\* the price _open_position validates the stops against
RefPrice(d) ==
    IF d.order_type = "Market" \/ d.entry_price = 0
      THEN LastPrice(ToBybit(d.target_symbol))
      ELSE d.entry_price

\* distances from price r at the edges of the stop rule, and one inside it
StopDistances(r) ==
    {(r * 3) \div 1000 - 1, (r * 3) \div 1000, (r * 2) \div 100,
     r \div 5, r \div 5 + 1}

\* stop-loss values of a Decision: none, at r, and on both sides of r
StopLossChoices(r) ==
    {0, r} \cup {r - k : k \in StopDistances(r)}
           \cup {r + k : k \in StopDistances(r)}

\* take-profit lists of a Decision: none, unset, and either side of r
TakeProfitChoices(r) ==
    LET up == (r * 102) \div 100
        dn == (r * 98) \div 100
    IN  {<< >>, <<0>>, <<r>>, <<up>>, <<dn>>, <<up, dn>>, <<dn, up>>}

\* how a Decision names its entry: order_type and entry_price
EntryChoices(a, b) ==
    {[order_type |-> "Market", entry_price |-> 0],
     [order_type |-> "Market", entry_price |-> LimitEntry(a, b)],
     [order_type |-> "Limit", entry_price |-> 0],
     [order_type |-> "Limit", entry_price |-> LimitEntry(a, b)]}

\* Decisions that vary the stop-loss and the take-profit list
GeometryDecisions ==
    UNION {
      UNION {
        LET d0 == [HoldDecision EXCEPT !.action = a, !.target_symbol = s,
                     !.position_size = 100, !.leverage = 10,
                     !.order_type = e.order_type,
                     !.entry_price = e.entry_price]
        IN  {[d0 EXCEPT !.stop_loss = sl, !.take_profit = tp] :
                sl \in StopLossChoices(RefPrice(d0)),
                tp \in TakeProfitChoices(RefPrice(d0))} :
        e \in EntryChoices(a, ToBybit(s))} :
      a \in {"LONG", "SHORT"}, s \in AISymbols}

\* Decisions that vary position_size (per-mille) and leverage
SizingDecisions ==
    {[HoldDecision EXCEPT !.action = a, !.target_symbol = s,
        !.position_size = ps, !.leverage = lv,
        !.stop_loss = StopAt(a, ToBybit(s))] :
        a \in {"LONG", "SHORT"}, s \in AISymbols,
        ps \in {10, 30, 100, 150, 300, 500}, lv \in {0, 1, 10, 15, 20}}

OpsDecisions == LoopDecisions \cup GeometryDecisions \cup SizingDecisions

\* what the engine records and the exchange holds when the operation starts:
\* flat, a position the engine opened, or one the exchange has closed since
\* the last refresh
OpsStates ==
    LET flat == [b \in BybitSymbols |-> Flat]
    IN  {[cp |-> None, cs |-> None, pos |-> flat],
         [cp |-> "Buy", cs |-> "BTCUSDT_PERPETUAL",
          pos |-> [flat EXCEPT !["BTCUSDT"] = [side |-> "Buy", size |-> 20]]],
         [cp |-> "Sell", cs |-> "BTCUSDT_PERPETUAL",
          pos |-> [flat EXCEPT !["BTCUSDT"] = [side |-> "Sell", size |-> 20]]],
         [cp |-> "Buy", cs |-> "BTCUSDT_PERPETUAL", pos |-> flat]}

\* the reasons _close_position is called with, and one that names a stop
CloseReasons == {"ai_close", "switch", "protection", "user_stop", "stop_loss"}

InitOps ==
    /\ pc \in {"execute", "close"}
    /\ is_running = TRUE
    /\ now = 0
    /\ \E h \in OpsStates :
         /\ current_position = h.cp
         /\ current_symbol = h.cs
         /\ exPos = h.pos
    /\ pending_limit_orders = << >>
    /\ total_trades = 0
    /\ successful_trades = 0
    /\ failed_trades = 0
    /\ recent_stop_losses = << >>
    /\ decision \in (IF pc = "execute" THEN OpsDecisions ELSE {HoldDecision})
    /\ todo = {}
    /\ orders_to_remove = {}
    /\ exOrders = {}
    /\ nextOrderId = 1
    /\ trace = << >>
    /\ lastOp = "init"
    /\ WatchInit

\* _close_position(reason), called on its own
ClosePositionCall ==
    /\ pc = "close"
    /\ \E reason \in CloseReasons, ok \in BOOLEAN :
         IF current_position # None /\ current_symbol # None
           THEN \E positions \in SymbolReplies(Eng, ToBybit(current_symbol)) :
                   Commit(ClosePosition(Eng, reason, positions, ok))
           ELSE Commit(ClosePosition(Eng, reason, NoList, ok))
    /\ pc' = "done"
    /\ lastOp' = "close"
    /\ UNCHANGED <<is_running, now, recent_stop_losses, decision, todo,
                   orders_to_remove>>
    /\ UNCHANGED watchVars

NextOps ==
    \/ ExecuteDecision
    \/ OpenStep
    \/ ClosePositionCall

SpecOps == InitOps /\ [][NextOps]_vars

-----------------------------------------------------------------------------
(* The loop through one day, with the balances it reads at step 2 kept.     *)
(* check_max_daily_loss has no caller: no step of the loop consults it.     *)

\* the balances step 2 can read: the call failed, 1000, and 15% and 16%
\* under 1000
DayWalletReplies == {NoNumber, 1000, 850, 840}

\* the engine as __init__ and start() leave it, on an account with no
\* position and no order whose next order id is the last one followed
InitDay ==
    /\ pc = "top"
    /\ is_running = TRUE
    /\ now = 0
    /\ current_position = None
    /\ current_symbol = None
    /\ pending_limit_orders = << >>
    /\ total_trades = 0
    /\ successful_trades = 0
    /\ failed_trades = 0
    /\ recent_stop_losses = << >>
    /\ decision = HoldDecision
    /\ todo = {}
    /\ orders_to_remove = {}
    /\ exPos = [b \in BybitSymbols |-> Flat]
    /\ exOrders = {}
    /\ nextOrderId = MaxOrders
    /\ trace = << >>
    /\ lastOp = "init"
    /\ WatchInit

\* steps 1 and 2 of an iteration, as RefreshState, with the balance that
\* position_info carries to step 3 kept in the log and in the day's history
RefreshStateOfDay ==
    /\ pc = "data"
    /\ \E got_data \in BOOLEAN :
         IF ~got_data
           THEN /\ pc' = "sleep"
                /\ lastOp' = "nodata"
                /\ UNCHANGED <<engineVars, exchangeVars, trace,
                               first_balance_today, daily_loss_seen>>
           ELSE \E positions \in SettleReplies(Eng), wallet \in DayWalletReplies :
                LET info == GetPositionInfo(Eng, positions, wallet)
                    first == IF first_balance_today = NoNumber /\ info.balance > 0
                               THEN info.balance ELSE first_balance_today
                IN  /\ Commit(Log(info.E, [op |-> "balance",
                                           balance |-> info.balance]))
                    /\ first_balance_today' = first
                    /\ daily_loss_seen' =
                         (\/ daily_loss_seen
                          \/ /\ info.balance > 0
                             /\ first # NoNumber
                             /\ (first - info.balance) * 100 > 15 * first)
                    /\ pc' = "guard"
                    /\ lastOp' = "refresh"
    /\ UNCHANGED <<is_running, now, recent_stop_losses, decision, todo,
                   orders_to_remove, last_trailing_stop_check,
                   trailing_stop_updates, exEntry, exStop, drawdownVars,
                   managerVars>>

NextDay ==
    \/ LoopTop
    \/ CheckPendingOrder
    \/ CheckPendingDone
    \/ RefreshStateOfDay
    \/ ProtectionCheck
    \/ Cooldown
    \/ AskDecision
    \/ ExecuteDecision
    \/ OpenStep
    \/ Sleep

SpecDay == InitDay /\ [][NextDay]_vars

-----------------------------------------------------------------------------
(* Cancellation: the loop of Spec, with stop() called from another thread   *)
(* at any moment of an iteration.  Only the first two statements of stop()  *)
(* matter to the loop: they set the flag the while condition reads.         *)

\* stop(): self.is_running = False; self.stop_event.set(), while the loop
\* thread is anywhere in its iteration
StopRequestedAnytime ==
    /\ pc # "done"
    /\ is_running
    /\ is_running' = FALSE
    /\ UNCHANGED <<pc, now, engineVars, exchangeVars, decision, todo,
                   orders_to_remove, trace, lastOp>>
    /\ UNCHANGED watchVars

NextCancel ==
    \/ LoopTop
    \/ LoopExit
    \/ CheckPendingOrder
    \/ CheckPendingDone
    \/ RefreshState
    \/ ProtectionCheck
    \/ Cooldown
    \/ AskDecision
    \/ ExecuteDecision
    \/ OpenStep
    \/ Sleep
    \/ OrderFills
    \/ PositionStopped
    \/ StopRequestedAnytime

SpecCancel == InitDay /\ [][NextCancel]_vars

-----------------------------------------------------------------------------
(* Ownership: the loop of Spec, with a monitoring thread that calls         *)
(* get_status() at any moment of an iteration.  Neither thread takes a      *)
(* lock: the engine has none.                                               *)

\* get_status(), from a thread other than the loop's: its first statement is
\* position_info = self._get_position_info()
GetStatusCall ==
    /\ pc # "done"
    /\ \E positions \in SettleReplies(Eng), wallet \in WalletReplies :
         Commit([GetPositionInfo(Eng, positions, wallet).E EXCEPT !.tr = trace])
    /\ lastOp' = "get_status"
    /\ UNCHANGED <<pc, is_running, now, recent_stop_losses, decision, todo,
                   orders_to_remove>>
    /\ UNCHANGED watchVars

NextOwner ==
    \/ LoopTop
    \/ LoopExit
    \/ CheckPendingOrder
    \/ CheckPendingDone
    \/ RefreshState
    \/ ProtectionCheck
    \/ Cooldown
    \/ AskDecision
    \/ ExecuteDecision
    \/ OpenStep
    \/ Sleep
    \/ OrderFills
    \/ PositionStopped
    \/ StopRequested
    \/ GetStatusCall

SpecOwner == InitDay /\ [][NextOwner]_vars

-----------------------------------------------------------------------------
(* Sizing: _execute_decision and _open_position on a flat account, for      *)
(* every fraction and leverage the policy can name and for balances from    *)
(* the smallest the engine trades with.                                     *)

\* the balances get_wallet_balance can report to _open_position: the call
\* failed, min_balance, a little more, and 1000
SizeWalletReplies == {NoNumber, min_balance, 20, 1000}

InitSize ==
    /\ pc = "execute"
    /\ is_running = TRUE
    /\ now = 0
    /\ current_position = None
    /\ current_symbol = None
    /\ pending_limit_orders = << >>
    /\ total_trades = 0
    /\ successful_trades = 0
    /\ failed_trades = 0
    /\ recent_stop_losses = << >>
    /\ decision \in SizingDecisions
    /\ todo = {}
    /\ orders_to_remove = {}
    /\ exPos = [b \in BybitSymbols |-> Flat]
    /\ exOrders = {}
    /\ nextOrderId = 1
    /\ trace = << >>
    /\ lastOp = "init"
    /\ WatchInit

\* _open_position, as OpenStep, on an account of any of the balances above
OpenSizedStep ==
    /\ pc = "open"
    /\ LET d == decision
       IN  \E ticker \in TickerReplies(ToBybit(d.target_symbol)),
              positions \in SettleReplies(Eng), wallet \in SizeWalletReplies,
              ok \in BOOLEAN :
           Commit(OpenPosition(Eng, d, PositionSizePct(d), Leverage(d), now,
                               ticker, positions, wallet, ok))
    /\ pc' = "sleep"
    /\ lastOp' = "open"
    /\ UNCHANGED <<is_running, now, recent_stop_losses, decision, todo,
                   orders_to_remove>>
    /\ UNCHANGED watchVars

NextSize ==
    \/ ExecuteDecision
    \/ OpenSizedStep

SpecSize == InitSize /\ [][NextSize]_vars

-----------------------------------------------------------------------------
(* The manager of the engine: TradingSystemManager and UserTradingSystem,   *)
(* which share start, stop, restart and _run_trading_system line for line.  *)
(* Request threads call start(), stop() and restart() with no lock; every   *)
(* statement that reads or writes self.state is a step of its own.          *)

\* the threads that are alive: started and not yet returned
AliveThreads == {t \in ThreadIds : threads[t].phase \notin {"unborn", "dead"}}

\* threading.Thread.is_alive() of self.trading_thread
TradingThreadAlive == trading_thread # 0 /\ trading_thread \in AliveThreads

\* the manager's fields the engine's own variables are not
notManagerVars == <<pc, now, engineVars, exchangeVars, decision, todo,
                    orders_to_remove, trace, lastOp, first_balance_today,
                    daily_loss_seen, last_trailing_stop_check,
                    trailing_stop_updates, exEntry, exStop, drawdownVars>>

InitManager ==
    /\ pc = "top"
    /\ is_running = FALSE
    /\ now = 0
    /\ current_position = None
    /\ current_symbol = None
    /\ pending_limit_orders = << >>
    /\ total_trades = 0
    /\ successful_trades = 0
    /\ failed_trades = 0
    /\ recent_stop_losses = << >>
    /\ decision = HoldDecision
    /\ todo = {}
    /\ orders_to_remove = {}
    /\ exPos = [b \in BybitSymbols |-> Flat]
    /\ exOrders = {}
    /\ nextOrderId = 1
    /\ trace = << >>
    /\ lastOp = "init"
    /\ WatchInit

\* start(), to where it has read self.state and loaded the configuration;
\* restart() comes here after its stop() and its sleep
StartCheck(r) ==
    /\ \/ callers[r].at = "idle"
       \/ callers[r].at = "pause"
    /\ IF state \in {RUNNING, STARTING}
         THEN /\ callers' = [callers EXCEPT ![r] = Idle]
              /\ UNCHANGED state
         ELSE \E loaded \in BOOLEAN :
                IF loaded
                  THEN /\ callers' = [callers EXCEPT ![r] =
                                        [op |-> "start", at |-> "checked",
                                         entered |-> state]]
                       /\ UNCHANGED state
                  ELSE /\ state' = ERROR
                       /\ callers' = [callers EXCEPT ![r] = Idle]
    /\ UNCHANGED <<stop_event, trading_system, trading_thread, threads,
                   is_running>>
    /\ UNCHANGED notManagerVars

\* start(): state = STARTING, stop_event.clear(), a new thread is created,
\* stored in self.trading_thread and started
StartSpawn(r) ==
    /\ callers[r].at = "checked"
    /\ \E t \in ThreadIds :
         /\ threads[t].phase = "unborn"
         /\ \A u \in ThreadIds : u < t => threads[u].phase # "unborn"
         /\ threads' = [threads EXCEPT ![t] =
                          [phase |-> "started", entered |-> callers[r].entered]]
         /\ trading_thread' = t
    /\ state' = STARTING
    /\ stop_event' = FALSE
    /\ callers' = [callers EXCEPT ![r] =
                     [op |-> "start", at |-> "sleep", entered |-> STOPPED]]
    /\ UNCHANGED <<trading_system, is_running>>
    /\ UNCHANGED notManagerVars

\* start(): after time.sleep(2) it reads self.state and returns
StartReturn(r) ==
    /\ callers[r].at = "sleep"
    /\ callers' = [callers EXCEPT ![r] = Idle]
    /\ UNCHANGED <<state, stop_event, trading_system, trading_thread, threads,
                   is_running>>
    /\ UNCHANGED notManagerVars

\* stop(), called directly or by restart(), to where it is about to join:
\* state = STOPPING, stop_event.set(), trading_system.stop()
StopBegin(r) ==
    /\ callers[r].at = "idle"
    /\ \E op \in {"stop", "restart"} :
         IF state = STOPPED
           THEN /\ callers' = [callers EXCEPT ![r] = Idle]
                /\ UNCHANGED <<state, stop_event, is_running>>
           ELSE /\ state' = STOPPING
                /\ stop_event' = TRUE
                /\ is_running' = IF trading_system # None
                                   THEN FALSE ELSE is_running
                /\ callers' = [callers EXCEPT ![r] =
                                 [op |-> op, at |-> "join",
                                  entered |-> STOPPED]]
    /\ UNCHANGED <<trading_system, trading_thread, threads>>
    /\ UNCHANGED notManagerVars

\* the thread can stay alive for longer than the 10 seconds join waits: it
\* is in the constructor of LiveTradingEngine, which calls the exchange, or
\* in the mock loop with the stop event cleared again
OutlastsJoin(t) ==
    \/ threads[t].phase = "started"
    \/ threads[t].phase \in {"mock", "mock_wait"} /\ ~stop_event

\* stop(): trading_thread.join(timeout=10) when the thread is alive, then
\* state = STOPPED; restart() goes on to its sleep
StopJoin(r) ==
    /\ callers[r].at = "join"
    /\ TradingThreadAlive => OutlastsJoin(trading_thread)
    /\ state' = STOPPED
    /\ callers' = [callers EXCEPT ![r] =
                     IF callers[r].op = "restart"
                       THEN [callers[r] EXCEPT !.at = "pause"]
                       ELSE Idle]
    /\ UNCHANGED <<stop_event, trading_system, trading_thread, threads,
                   is_running>>
    /\ UNCHANGED notManagerVars

\* _run_trading_system, to the call of run(): the engine is imported and
\* constructed and state = RUNNING; or the import fails and the mock system
\* runs; or the constructor raises
ThreadConstruct(t) ==
    /\ threads[t].phase = "started"
    /\ \E outcome \in {"engine", "import_error", "raised"} :
         CASE outcome = "engine" ->
                /\ trading_system' = "engine"
                /\ state' = RUNNING
                /\ threads' = [threads EXCEPT ![t].phase = "run_call"]
           [] outcome = "import_error" ->
                /\ state' = RUNNING
                /\ threads' = [threads EXCEPT ![t].phase = "mock"]
                /\ UNCHANGED trading_system
           [] OTHER ->
                /\ state' = ERROR
                /\ threads' = [threads EXCEPT ![t].phase = "finally"]
                /\ UNCHANGED trading_system
    /\ UNCHANGED <<stop_event, trading_thread, callers, is_running>>
    /\ UNCHANGED notManagerVars

\* self.trading_system.run(): LiveTradingEngine defines no run, the call
\* raises AttributeError and the handler sets state = ERROR
ThreadRun(t) ==
    /\ threads[t].phase = "run_call"
    /\ state' = ERROR
    /\ threads' = [threads EXCEPT ![t].phase = "finally"]
    /\ UNCHANGED <<stop_event, trading_system, trading_thread, callers,
                   is_running>>
    /\ UNCHANGED notManagerVars

\* _run_mock_trading_system: while not self.stop_event.is_set()
MockLoop(t) ==
    /\ threads[t].phase = "mock"
    /\ threads' = [threads EXCEPT ![t].phase =
                     IF stop_event THEN "finally" ELSE "mock_wait"]
    /\ UNCHANGED <<state, stop_event, trading_system, trading_thread, callers,
                   is_running>>
    /\ UNCHANGED notManagerVars

\* _run_mock_trading_system: self.stop_event.wait(timeout=check_interval)
\* returns, the event set or the interval over
MockWait(t) ==
    /\ threads[t].phase = "mock_wait"
    /\ threads' = [threads EXCEPT ![t].phase = "mock"]
    /\ UNCHANGED <<state, stop_event, trading_system, trading_thread, callers,
                   is_running>>
    /\ UNCHANGED notManagerVars

\* _run_trading_system, finally: state = STOPPED unless it is ERROR, and
\* the thread returns
ThreadFinally(t) ==
    /\ threads[t].phase = "finally"
    /\ state' = IF state # ERROR THEN STOPPED ELSE state
    /\ threads' = [threads EXCEPT ![t].phase = "dead"]
    /\ UNCHANGED <<stop_event, trading_system, trading_thread, callers,
                   is_running>>
    /\ UNCHANGED notManagerVars

NextManager ==
    \/ \E r \in RequestThreads : StartCheck(r)
    \/ \E r \in RequestThreads : StartSpawn(r)
    \/ \E r \in RequestThreads : StartReturn(r)
    \/ \E r \in RequestThreads : StopBegin(r)
    \/ \E r \in RequestThreads : StopJoin(r)
    \/ \E t \in ThreadIds : ThreadConstruct(t)
    \/ \E t \in ThreadIds : ThreadRun(t)
    \/ \E t \in ThreadIds : MockLoop(t)
    \/ \E t \in ThreadIds : MockWait(t)
    \/ \E t \in ThreadIds : ThreadFinally(t)

SpecManager == InitManager /\ [][NextManager]_vars

-----------------------------------------------------------------------------
(* The trailing stop, step 5.5 of the loop, on one open position as the     *)
(* price moves: _check_and_update_trailing_stop called iteration after      *)
(* iteration.  ATR values are in cents.                                     *)

\* atr * trailing_stop_distance_multiplier (1.5)
TrailingDistance(atr) == (atr * 3) \div 2

\* atr * trailing_stop_trigger_multiplier (1.0)
TriggerDistance(atr) == atr

\* the rule of _check_and_update_trailing_stop: should_update and
\* new_stop_loss for a position of `side`
TrailingDecision(side, entry_price, current_stop_loss, current_price, atr) ==
    LET none == [should_update |-> FALSE, new_stop_loss |-> 0]
    IN
    IF side = "Buy"
      THEN LET profit == current_price - entry_price
               potential_stop == current_price - TrailingDistance(atr)
           IN  IF profit >= TriggerDistance(atr)
                 THEN IF current_stop_loss > 0
                        THEN IF potential_stop > current_stop_loss
                               THEN [should_update |-> TRUE,
                                     new_stop_loss |-> potential_stop]
                               ELSE none
                        ELSE [should_update |-> TRUE,
                              new_stop_loss |-> Max(potential_stop, entry_price)]
                 ELSE none
    ELSE IF side = "Sell"
      THEN LET profit == entry_price - current_price
               potential_stop == current_price + TrailingDistance(atr)
           IN  IF profit >= TriggerDistance(atr)
                 THEN IF current_stop_loss > 0
                        THEN IF potential_stop < current_stop_loss
                               THEN [should_update |-> TRUE,
                                     new_stop_loss |-> potential_stop]
                               ELSE none
                        ELSE [should_update |-> TRUE,
                              new_stop_loss |-> Min(potential_stop, entry_price)]
                 ELSE none
    ELSE none

\* the updates counted for every stop sent, accepted or not
CountUpdateAlways(updates, result) == updates + 1

\* if result: self.trailing_stop_updates += 1
CountUpdate(updates, result) == IF result THEN updates + 1 ELSE updates

\* what get_positions(b) returns to the trailing step
TrailPositionReplies(b) ==
    {NoList,
     Reply(<<[symbol |-> b, side |-> exPos[b].side, size |-> exPos[b].size,
              avgPrice |-> exEntry, stopLoss |-> exStop]>>)}

\* last prices around the entry of the position
TrailPrices(b) ==
    {LastPrice(b) + k : k \in {-30000, -20000, -10000, 0, 10000, 20000, 30000}}

\* the ATR of the latest candle: none (0), and two valid values
TrailAtrs == {0, 10000, 10004}

\* the engine holds one position, opened at the last price, with the stop
\* of its Decision or with none
InitTrail ==
    /\ pc = "trail"
    /\ is_running = TRUE
    /\ now = 0
    /\ pending_limit_orders = << >>
    /\ total_trades = 1
    /\ successful_trades = 1
    /\ failed_trades = 0
    /\ recent_stop_losses = << >>
    /\ decision = HoldDecision
    /\ todo = {}
    /\ orders_to_remove = {}
    /\ exOrders = {}
    /\ nextOrderId = 2
    /\ trace = << >>
    /\ lastOp = "init"
    /\ first_balance_today = NoNumber
    /\ daily_loss_seen = FALSE
    /\ last_trailing_stop_check = now - trailing_stop_check_interval
    /\ trailing_stop_updates = 0
    /\ peak_balance = 0
    /\ drawdown_analysis_triggered = FALSE
    /\ ManagerInit
    /\ \E s \in AISymbols, side \in {"Buy", "Sell"}, with_stop \in BOOLEAN :
         /\ current_position = side
         /\ current_symbol = s
         /\ exPos = [b \in BybitSymbols |->
                       IF b = ToBybit(s) THEN [side |-> side, size |-> 20]
                       ELSE Flat]
         /\ exEntry = LastPrice(ToBybit(s))
         /\ exStop = IF with_stop
                       THEN FormatPrice(ToBybit(s),
                              StopAt(IF side = "Buy" THEN "LONG" ELSE "SHORT",
                                     ToBybit(s)))
                       ELSE 0

\* _check_and_update_trailing_stop(), called by the loop when
\* self.current_position is set
TrailingStopCall ==
    /\ pc = "trail"
    /\ current_position # None
    /\ use_trailing_stop
    /\ now - last_trailing_stop_check >= trailing_stop_check_interval
    /\ last_trailing_stop_check' = now
    /\ LET bybit_symbol == ToBybit(current_symbol)
       IN
       \E positions \in TrailPositionReplies(bybit_symbol),
          ticker \in {NoNumber} \cup TrailPrices(bybit_symbol),
          atr \in TrailAtrs, got_data \in BOOLEAN, result \in BOOLEAN :
         LET read == /\ current_symbol # None
                     /\ positions.ok
                     /\ positions.list[1].size # 0
                     /\ ticker # NoNumber
                     /\ got_data
                     /\ atr # 0
             position == positions.list[1]
             d == TrailingDecision(position.side, position.avgPrice,
                                   position.stopLoss, ticker, atr)
         IN
         IF read /\ d.should_update /\ d.new_stop_loss > 0
           THEN LET formatted_stop == FormatPrice(bybit_symbol, d.new_stop_loss)
                IN  /\ trace' = <<[op |-> "set_trading_stop",
                                   side |-> position.side,
                                   entry |-> position.avgPrice,
                                   old_stop |-> position.stopLoss,
                                   price |-> ticker, atr |-> atr,
                                   stop_loss |-> formatted_stop,
                                   result |-> result]>>
                    /\ exStop' = IF result THEN formatted_stop ELSE exStop
                    /\ trailing_stop_updates' =
                         CountUpdate(trailing_stop_updates, result)
                    /\ lastOp' = "trail_sent"
           ELSE /\ trace' = <<[op |-> "no_update", read |-> read,
                               price |-> ticker, atr |-> atr]>>
                /\ lastOp' = "trail"
                /\ UNCHANGED <<exStop, trailing_stop_updates>>
    /\ UNCHANGED <<pc, is_running, now, engineVars, exPos, exOrders, nextOrderId,
                   decision, todo, orders_to_remove, first_balance_today,
                   daily_loss_seen, exEntry, drawdownVars, managerVars>>

\* time.sleep(self.trading_interval) between two iterations
TrailSleep ==
    /\ pc = "trail"
    /\ now + trading_interval <= MaxTime
    /\ now' = now + trading_interval
    /\ trace' = << >>
    /\ lastOp' = "sleep"
    /\ UNCHANGED <<pc, is_running, engineVars, exchangeVars, decision, todo,
                   orders_to_remove, watchVars>>

NextTrail ==
    \/ TrailingStopCall
    \/ TrailSleep

SpecTrail == InitTrail /\ [][NextTrail]_vars

-----------------------------------------------------------------------------
(* The drawdown watchdog: the balances it is shown, by step 2.5 of the loop *)
(* and by _close_position after a close, one after the other.  The log      *)
(* keeps every balance shown and whether the self-review was requested.     *)

\* longest sequence of balances followed
MaxObs == 5

\* the drawdown compared strictly with the threshold
DrawdownReachedStrictly(peak, current_balance) ==
    (peak - current_balance) * 100 > 10 * peak

\* current_drawdown >= 10.0, with
\* current_drawdown = (peak_balance - current_balance) / peak_balance * 100
DrawdownReached(peak, current_balance) ==
    (peak - current_balance) * 100 >= 10 * peak

\* _check_drawdown_and_analyze(current_balance): the new peak_balance and
\* drawdown_analysis_triggered, and whether _trigger_drawdown_analysis ran
CheckDrawdownAndAnalyze(peak, triggered, current_balance) ==
    LET new_peak == current_balance > peak
        peak1 == IF new_peak THEN current_balance ELSE peak
        triggered1 == IF new_peak THEN FALSE ELSE triggered
        review == /\ peak1 > 0
                  /\ DrawdownReached(peak1, current_balance)
                  /\ ~triggered1
    IN  [peak |-> peak1, triggered |-> triggered1 \/ review, review |-> review]

\* _check_drawdown_after_close(current_balance, symbol, trade_id): a new
\* peak returns at once
CheckDrawdownAfterClose(peak, triggered, current_balance) ==
    IF current_balance > peak
      THEN [peak |-> current_balance, triggered |-> FALSE, review |-> FALSE]
      ELSE LET review == /\ peak > 0
                         /\ DrawdownReached(peak, current_balance)
                         /\ ~triggered
           IN  [peak |-> peak, triggered |-> triggered \/ review,
                review |-> review]

\* balances of the wallet, in USDT; 900 is 10% under 1000 and 990 is 10%
\* under 1100
WatchBalances == {900, 990, 1000, 1100}

InitWatch ==
    /\ pc = "watch"
    /\ is_running = TRUE
    /\ now = 0
    /\ current_position = None
    /\ current_symbol = None
    /\ pending_limit_orders = << >>
    /\ total_trades = 0
    /\ successful_trades = 0
    /\ failed_trades = 0
    /\ recent_stop_losses = << >>
    /\ decision = HoldDecision
    /\ todo = {}
    /\ orders_to_remove = {}
    /\ exPos = [b \in BybitSymbols |-> Flat]
    /\ exOrders = {}
    /\ nextOrderId = 1
    /\ trace = << >>
    /\ lastOp = "init"
    /\ WatchInit

\* what a call of the watchdog leaves alone
notDrawdownVars == <<pc, is_running, now, engineVars, exchangeVars, decision,
                     todo, orders_to_remove, first_balance_today,
                     daily_loss_seen, last_trailing_stop_check,
                     trailing_stop_updates, exEntry, exStop, managerVars>>

\* step 2.5 of the loop: if current_balance > 0:
\*     self._check_drawdown_and_analyze(current_balance)
LoopDrawdownCheck ==
    /\ pc = "watch"
    /\ Len(trace) < MaxObs
    /\ \E current_balance \in WatchBalances \cup {0} :
         IF current_balance > 0
           THEN LET r == CheckDrawdownAndAnalyze(peak_balance,
                             drawdown_analysis_triggered, current_balance)
                IN  /\ peak_balance' = r.peak
                    /\ drawdown_analysis_triggered' = r.triggered
                    /\ trace' = Append(trace, [op |-> "observed",
                                               balance |-> current_balance,
                                               review |-> r.review])
                    /\ lastOp' = "loop_check"
           ELSE /\ lastOp' = "loop_skip"
                /\ UNCHANGED <<trace, drawdownVars>>
    /\ UNCHANGED notDrawdownVars

\* _close_position after the close: the balance of _get_position_info (0 when
\* the wallet could not be read) goes to _check_drawdown_after_close
CloseDrawdownCheck ==
    /\ pc = "watch"
    /\ Len(trace) < MaxObs
    /\ \E current_balance \in WatchBalances \cup {0} :
         LET r == CheckDrawdownAfterClose(peak_balance,
                      drawdown_analysis_triggered, current_balance)
         IN  /\ peak_balance' = r.peak
             /\ drawdown_analysis_triggered' = r.triggered
             /\ trace' = Append(trace, [op |-> "observed",
                                        balance |-> current_balance,
                                        review |-> r.review])
             /\ lastOp' = "close_check"
    /\ UNCHANGED notDrawdownVars

NextWatch ==
    \/ LoopDrawdownCheck
    \/ CloseDrawdownCheck

SpecWatch == InitWatch /\ [][NextWatch]_vars

-----------------------------------------------------------------------------
(* The two formatters on their own: one instrument's rule set, as           *)
(* _load_trading_rules stored it, and one price or quantity after another.  *)

\* largest input, in steps of 5 (half a BTCUSDT tick, in cents)
MaxInput == 400

\* an instrument whose priceFilter reports tickSize 5, minPrice 5 and whose
\* lotSizeFilter reports qtyStep 1, minOrderQty 1
CoarseRules ==
    [qty_step |-> 1000, min_order_qty |-> 1000, max_order_qty |-> 2000,
     min_order_amt |-> 0, max_order_amt |-> 0, tick_size |-> 500,
     min_price |-> 500, max_price |-> 1000,
     status |-> "Trading", unified_margin_trade |-> TRUE]

\* an instrument with ticks of a cent and a narrow price and quantity range
NarrowRules ==
    [qty_step |-> 100, min_order_qty |-> 100, max_order_qty |-> 500,
     min_order_amt |-> 0, max_order_amt |-> 0, tick_size |-> 1,
     min_price |-> 20, max_price |-> 400,
     status |-> "Trading", unified_margin_trade |-> TRUE]

\* the rule sets formatted under
FormatRuleSets ==
    {trading_rules(b) : b \in BybitSymbols \cup {"SOLUSDT"}}
        \cup {CoarseRules, NarrowRules}

\* prices in cents; quantities are FormatInputs over 1 or 3 quantity units
FormatInputs == {5 * k : k \in 0..MaxInput}

InitFormat ==
    /\ pc = "format"
    /\ is_running = TRUE
    /\ now = 0
    /\ current_position = None
    /\ current_symbol = None
    /\ pending_limit_orders = << >>
    /\ total_trades = 0
    /\ successful_trades = 0
    /\ failed_trades = 0
    /\ recent_stop_losses = << >>
    /\ decision = HoldDecision
    /\ todo = {}
    /\ orders_to_remove = {}
    /\ exPos = [b \in BybitSymbols |-> Flat]
    /\ exOrders = {}
    /\ nextOrderId = 1
    /\ \E rules \in FormatRuleSets :
         trace = <<[op |-> "rules", rules |-> rules]>>
    /\ lastOp = "init"
    /\ WatchInit

\* what a formatter leaves alone: everything but the log
notLogVars == <<pc, is_running, now, engineVars, exchangeVars, decision, todo,
                orders_to_remove, watchVars>>

\* _format_price(symbol, price), and _format_price of the number its result
\* reads back as (str of a float reads back as the same float)
FormatPriceCall ==
    /\ pc = "format"
    /\ Len(trace) = 1
    /\ \E price \in FormatInputs :
         LET result == FormatPriceBy(trace[1].rules, price)
         IN  trace' = <<trace[1],
                        [op |-> "format_price", price |-> price,
                         result |-> result,
                         again |-> FormatPriceBy(trace[1].rules, result)]>>
    /\ lastOp' = "format_price"
    /\ UNCHANGED notLogVars

\* _format_quantity(symbol, qty), and _format_quantity of the number its
\* result reads back as
FormatQuantityCall ==
    /\ pc = "format"
    /\ Len(trace) = 1
    /\ \E num \in FormatInputs, den \in {1, 3} :
         LET result == FormatQuantityBy(trace[1].rules, num, den)
         IN  trace' = <<trace[1],
                        [op |-> "format_quantity", num |-> num, den |-> den,
                         result |-> result,
                         again |-> FormatQuantityBy(trace[1].rules, result, 1)]>>
    /\ lastOp' = "format_quantity"
    /\ UNCHANGED notLogVars

NextFormat ==
    \/ FormatPriceCall
    \/ FormatQuantityCall

SpecFormat == InitFormat /\ [][NextFormat]_vars

-----------------------------------------------------------------------------
(* The signature of a private request: the signed prelude of _send_request  *)
(* and _generate_signature, for one request after another.  The log keeps   *)
(* the last two requests signed.                                            *)

\* str(d) of one decimal digit
DigitStr(d) ==
    CASE d = 0 -> "0" [] d = 1 -> "1" [] d = 2 -> "2" [] d = 3 -> "3"
      [] d = 4 -> "4" [] d = 5 -> "5" [] d = 6 -> "6" [] d = 7 -> "7"
      [] d = 8 -> "8" [] d = 9 -> "9"

RECURSIVE IntStr(_)
\* str(n) of an int n >= 0, as the f-string writes self.recv_window
IntStr(n) == IF n < 10 THEN DigitStr(n) ELSE IntStr(n \div 10) \o DigitStr(n % 10)

\* sorted() of the parameter names the client sends
SortedKeys == <<"category", "settleCoin", "symbol">>

RECURSIVE JoinPairs(_, _, _)
\* sep.join of f"{k}{mid}{v}" over the pairs of items, with mid already
\* inside each piece
JoinPairs(pieces, sep, i) ==
    IF i > Len(pieces) THEN ""
    ELSE IF i = Len(pieces) THEN pieces[i]
    ELSE pieces[i] \o sep \o JoinPairs(pieces, sep, i + 1)

\* the items of the dict in the order they were inserted:
\* "&".join(f"{k}={v}" for k, v in params.items())
QueryStringUnsorted(params) ==
    JoinPairs([i \in 1..Len(params) |-> params[i][1] \o "=" \o params[i][2]],
              "&", 1)

\* "&".join([f"{k}={v}" for k, v in sorted(params.items())]) if params else ""
QueryString(params) ==
    LET present == SelectSeq(SortedKeys,
                             LAMBDA k : \E i \in 1..Len(params) : params[i][1] = k)
        value(k) == params[CHOOSE i \in 1..Len(params) : params[i][1] = k][2]
    IN  JoinPairs([i \in 1..Len(present) |->
                      present[i] \o "=" \o value(present[i])], "&", 1)

\* json.dumps(params) if params else "": the items in insertion order
JsonDumps(params) ==
    IF Len(params) = 0 THEN ""
    ELSE "{" \o JoinPairs([i \in 1..Len(params) |->
                              "\"" \o params[i][1] \o "\": \""
                                   \o params[i][2] \o "\""], ", ", 1) \o "}"

\* params_str of _send_request
ParamsStr(method, params) ==
    IF method = "POST" THEN JsonDumps(params) ELSE QueryString(params)

\* param_str of _generate_signature:
\* f"{timestamp}{self.api_key}{self.recv_window}{params}"
SignedPayload(timestamp, api_key, recv_window, params_str) ==
    timestamp \o api_key \o IntStr(recv_window) \o params_str

\* hmac.new(secret, param_str, sha256).hexdigest(): one digest per key and
\* message
HmacSha256(api_secret, param_str) == [key |-> api_secret, msg |-> param_str]

\* _get_timestamp(): milliseconds, as a string
Timestamps == {"1700000000000", "1700000000001"}

\* the keys a client is built with
ApiKeys == {"KEY", "KEY1"}

\* self.recv_window: 5000 as __init__ sets it, and a client set to 15000
RecvWindows == {5000, 15000}

\* the dicts handed to _send_request, as their items in insertion order
SuppliedParams ==
    {<< >>,
     <<<<"category", "linear">>>>,
     <<<<"category", "linear">>, <<"symbol", "BTCUSDT">>>>,
     <<<<"symbol", "BTCUSDT">>, <<"category", "linear">>>>}

InitSign ==
    /\ pc = "sign"
    /\ is_running = TRUE
    /\ now = 0
    /\ current_position = None
    /\ current_symbol = None
    /\ pending_limit_orders = << >>
    /\ total_trades = 0
    /\ successful_trades = 0
    /\ failed_trades = 0
    /\ recent_stop_losses = << >>
    /\ decision = HoldDecision
    /\ todo = {}
    /\ orders_to_remove = {}
    /\ exPos = [b \in BybitSymbols |-> Flat]
    /\ exOrders = {}
    /\ nextOrderId = 1
    /\ trace = << >>
    /\ lastOp = "init"
    /\ WatchInit

\* the signed prelude of _send_request(method, endpoint, params, signed=True)
\* on a client built with api_key, whose recv_window is recv_window
SignRequest ==
    /\ pc = "sign"
    /\ \E timestamp \in Timestamps, api_key \in ApiKeys,
          recv_window \in RecvWindows, method \in {"GET", "POST"},
          params \in SuppliedParams :
         LET params_str == ParamsStr(method, params)
             param_str == SignedPayload(timestamp, api_key, recv_window,
                                        params_str)
             signed == [op |-> "signed", method |-> method,
                        supplied |-> params,
                        timestamp |-> timestamp, api_key |-> api_key,
                        recv_window |-> recv_window,
                        params_str |-> params_str,
                        param_str |-> param_str,
                        signature |-> HmacSha256("secret", param_str)]
         IN  trace' = IF Len(trace) = 2 THEN <<trace[2], signed>>
                      ELSE Append(trace, signed)
    /\ lastOp' = "signed"
    /\ UNCHANGED notLogVars

NextSign == SignRequest

SpecSign == InitSign /\ [][NextSign]_vars

-----------------------------------------------------------------------------
(* The protocol client: _send_request and the two calls built on it whose   *)
(* replies the exchange uses for business-expected answers.  The log keeps  *)
(* the last two calls.                                                      *)

\* what the exchange, or the network, answers to one HTTP request
ExchangeReplies ==
    {[kind |-> "json", retCode |-> c, zero_position |-> FALSE] :
        c \in {0, 10001, 10002, 10003, 10004, 10006, 110043, 110007}}
      \cup {[kind |-> "json", retCode |-> 10001, zero_position |-> TRUE]}
      \cup {[kind |-> k, retCode |-> -1, zero_position |-> FALSE] :
               k \in {"timeout", "http_error", "bad_json"}}

\* _send_request(method, endpoint, params, signed) answered by reply: what it
\* returns ("result" for the reply's JSON, "None"), the HTTP requests it sent
\* and the calls of _sync_server_time it made
SendRequest(method, signed, reply) ==
    LET returned ==
          IF reply.kind # "json" THEN "None"
          ELSE IF reply.retCode = 0 THEN "result"
          ELSE IF reply.retCode = 110043 THEN "result"
          ELSE "None"
    IN  [returned |-> returned, requests |-> 1, resyncs |-> 0]

\* set_leverage(symbol, buy_leverage, sell_leverage): result is not None
SetLeverage(reply) ==
    LET r == SendRequest("POST", TRUE, reply)
    IN  [returned |-> r.returned # "None", requests |-> r.requests]

\* set_trading_stop(symbol, stop_loss, take_profit, position_idx)
SetTradingStop(has_stop_loss, has_take_profit, reply) ==
    IF ~has_stop_loss /\ ~has_take_profit
      THEN [returned |-> FALSE, requests |-> 0]
      ELSE LET r == SendRequest("POST", TRUE, reply)
           IN  [returned |-> r.returned # "None", requests |-> r.requests]

InitClient ==
    /\ pc = "client"
    /\ is_running = TRUE
    /\ now = 0
    /\ current_position = None
    /\ current_symbol = None
    /\ pending_limit_orders = << >>
    /\ total_trades = 0
    /\ successful_trades = 0
    /\ failed_trades = 0
    /\ recent_stop_losses = << >>
    /\ decision = HoldDecision
    /\ todo = {}
    /\ orders_to_remove = {}
    /\ exPos = [b \in BybitSymbols |-> Flat]
    /\ exOrders = {}
    /\ nextOrderId = 1
    /\ trace = << >>
    /\ lastOp = "init"
    /\ WatchInit

\* the log with one more call, the last two kept
LastTwo(t, e) == IF Len(t) = 2 THEN <<t[2], e>> ELSE Append(t, e)

\* one call of _send_request
SendRequestCall ==
    /\ pc = "client"
    /\ \E method \in {"GET", "POST"}, signed \in BOOLEAN,
          reply \in ExchangeReplies :
         LET r == SendRequest(method, signed, reply)
         IN  trace' = LastTwo(trace,
                         [op |-> "send_request", method |-> method,
                          signed |-> signed, reply |-> reply,
                          returned |-> r.returned, requests |-> r.requests,
                          resyncs |-> r.resyncs])
    /\ lastOp' = "send_request"
    /\ UNCHANGED notLogVars

\* one call of set_leverage
SetLeverageCall ==
    /\ pc = "client"
    /\ \E reply \in ExchangeReplies :
         LET r == SetLeverage(reply)
         IN  trace' = LastTwo(trace,
                         [op |-> "set_leverage", reply |-> reply,
                          returned |-> r.returned, requests |-> r.requests])
    /\ lastOp' = "set_leverage"
    /\ UNCHANGED notLogVars

\* one call of set_trading_stop
SetTradingStopCall ==
    /\ pc = "client"
    /\ \E has_stop_loss \in BOOLEAN, has_take_profit \in BOOLEAN,
          reply \in ExchangeReplies :
         LET r == SetTradingStop(has_stop_loss, has_take_profit, reply)
         IN  trace' = LastTwo(trace,
                         [op |-> "set_trading_stop",
                          reply |-> IF r.requests = 0
                                      THEN [kind |-> "none", retCode |-> -1,
                                            zero_position |-> FALSE]
                                      ELSE reply,
                          returned |-> r.returned, requests |-> r.requests])
    /\ lastOp' = "set_trading_stop"
    /\ UNCHANGED notLogVars

NextClient ==
    \/ SendRequestCall
    \/ SetLeverageCall
    \/ SetTradingStopCall

SpecClient == InitClient /\ [][NextClient]_vars

-----------------------------------------------------------------------------
(* The stop-loss detector on its own: record_stop_loss and                  *)
(* check_consecutive_stops called in any order as the clock advances.       *)

\* the fields the detector, the formatters and the watchdogs leave alone
otherVars == <<pc, is_running, current_position, current_symbol,
               pending_limit_orders, total_trades, successful_trades,
               failed_trades, decision, todo, orders_to_remove, exPos, exOrders,
               nextOrderId>>

InitStops ==
    /\ pc = "stops"
    /\ is_running = TRUE
    /\ now = 0
    /\ current_position = None
    /\ current_symbol = None
    /\ pending_limit_orders = << >>
    /\ total_trades = 0
    /\ successful_trades = 0
    /\ failed_trades = 0
    /\ recent_stop_losses = << >>
    /\ decision = HoldDecision
    /\ todo = {}
    /\ orders_to_remove = {}
    /\ exPos = [b \in BybitSymbols |-> Flat]
    /\ exOrders = {}
    /\ nextOrderId = 1
    /\ trace = << >>
    /\ lastOp = "init"
    /\ WatchInit

\* record_stop_loss(timestamp), with the time of the call
RecordStopLossCall ==
    /\ pc = "stops"
    /\ Len(recent_stop_losses) < MaxStops
    /\ recent_stop_losses' = RecordStopLoss(recent_stop_losses, now)
    /\ trace' = << >>
    /\ lastOp' = "record_stop"
    /\ UNCHANGED <<now, otherVars>>
    /\ UNCHANGED watchVars

\* check_consecutive_stops(timestamp), with the time of the call
CheckConsecutiveStopsCall ==
    /\ pc = "stops"
    /\ recent_stop_losses' = PruneStops(recent_stop_losses, now)
    /\ trace' = <<[op |-> "check_stops", at |-> now,
                   before |-> recent_stop_losses,
                   result |-> CheckConsecutiveStops(recent_stop_losses, now)]>>
    /\ lastOp' = "check_stops"
    /\ UNCHANGED <<now, otherVars>>
    /\ UNCHANGED watchVars

\* the clock between two calls: one or two hours pass
ClockAdvances ==
    /\ pc = "stops"
    /\ \E dt \in {60, 120} :
         /\ now + dt <= MaxHours * 60
         /\ now' = now + dt
    /\ trace' = << >>
    /\ lastOp' = "clock"
    /\ UNCHANGED <<recent_stop_losses, otherVars>>
    /\ UNCHANGED watchVars

NextStops ==
    \/ RecordStopLossCall
    \/ CheckConsecutiveStopsCall
    \/ ClockAdvances

SpecStops == InitStops /\ [][NextStops]_vars

-----------------------------------------------------------------------------
(* comprehensive_check on its own, over three tracked symbols.              *)

TrackedSymbols == AISymbols \cup {"SOLUSDT_PERPETUAL"}

\* latest 15m candles around the 5% line: flat, a drop of 4.9%, 5%, 5.1%
\* and 10%
CrashCandles ==
    {[Calm EXCEPT !.close = c, !.low = c] : c \in {1000, 951, 950, 949, 900}}

\* comprehensive_check is called with the data of every tracked symbol, by
\* an engine that holds nothing or holds a position
InitGuard ==
    /\ pc = "guard_call"
    /\ is_running = TRUE
    /\ now = 0
    /\ \E h \in {[cp |-> None, cs |-> None],
                  [cp |-> "Buy", cs |-> "BTCUSDT_PERPETUAL"]} :
         /\ current_position = h.cp
         /\ current_symbol = h.cs
    /\ pending_limit_orders = << >>
    /\ total_trades = 0
    /\ successful_trades = 0
    /\ failed_trades = 0
    /\ recent_stop_losses = << >>
    /\ decision = HoldDecision
    /\ todo = {}
    /\ orders_to_remove = {}
    /\ exPos = [b \in BybitSymbols |-> Flat]
    /\ exOrders = {}
    /\ nextOrderId = 1
    /\ trace \in {<<[op |-> "market_data", data |-> d]>> :
                     d \in [TrackedSymbols -> CrashCandles]}
    /\ lastOp = "init"
    /\ WatchInit

\* comprehensive_check(all_market_data, balance, timestamp, has_position,
\*                     current_symbol)
ComprehensiveCheckCall ==
    /\ pc = "guard_call"
    /\ LET reasons == ComprehensiveCheck(trace[1].data, now,
                                         current_position # None,
                                         current_symbol, recent_stop_losses)
       IN  trace' = Append(trace, [op |-> "guard_result",
                                   should_protect |-> reasons # {},
                                   reasons |-> reasons])
    /\ recent_stop_losses' = PruneStops(recent_stop_losses, now)
    /\ pc' = "done"
    /\ lastOp' = "guard_call"
    /\ UNCHANGED <<is_running, now, current_position, current_symbol,
                   pending_limit_orders, total_trades, successful_trades,
                   failed_trades, decision, todo, orders_to_remove,
                   exchangeVars>>
    /\ UNCHANGED watchVars

NextGuard == ComprehensiveCheckCall

SpecGuard == InitGuard /\ [][NextGuard]_vars

-----------------------------------------------------------------------------
(* Properties.  `trace` holds the events of the current loop iteration (of *)
(* the operation, under SpecOps) in the order they happened.                *)

Idx == 1..Len(trace)

\* an order _open_position sent to the exchange
IsOpeningOrder(e) == e.op = "place" /\ e.req.origin = "open"

\* a reduce-only closing order the exchange accepted
IsAcceptedClose(e) ==
    e.op = "place" /\ e.req.reduce_only /\ e.id # NoOrderId

\* the Position fields are what they were when _open_position was called,
\* or what its position refresh read from the exchange
PositionNotCreated ==
    \E i \in Idx :
        /\ trace[i].op \in {"call_open", "refresh"}
        /\ current_position = trace[i].held
        /\ current_symbol = trace[i].held_symbol

(* C1: where the loop has just refreshed position state, and after every   *)
(* _open_position and _close_position, the engine records a Position if    *)
(* and only if the exchange holds a non-zero size in that symbol.           *)
PositionIffExchangeSize ==
    lastOp \in {"refresh", "open", "close"} =>
        /\ (current_position # None /\ current_symbol # None) =>
              exPos[ToBybit(current_symbol)].size > 0
        /\ \A b \in BybitSymbols :
              exPos[b].size > 0 =>
                 current_position # None /\ current_symbol = ToAI(b)

(* C2: the engine's orders never leave the account with a non-zero size in *)
(* more than one symbol, nor with opening exposure (positions and resting  *)
(* opening orders) on both sides.                                           *)
AtMostOnePosition ==
    LET open == {b \in BybitSymbols : exPos[b].size > 0}
    IN  /\ Cardinality(open) <= 1
        /\ Cardinality({exPos[b].side : b \in open}
                       \cup {o.side : o \in exOrders}) <= 1

\* the geometry the claim asks of every opening order: a stop-loss on the
\* losing side of the entry, 0.3% to 20% away, every take-profit beyond it
FullGeometry(action, entry, stop, tps) ==
    /\ stop > 0
    /\ IF action = "LONG" THEN stop < entry ELSE stop > entry
    /\ Abs(entry - stop) * 1000 >= 3 * entry
    /\ Abs(entry - stop) * 100 <= 20 * entry
    /\ \A k \in 1..Len(tps) :
          /\ tps[k] > 0
          /\ IF action = "LONG" THEN tps[k] > entry ELSE tps[k] < entry

\* the same asked only of a stop-loss that is set and of a first take-profit
\* that is set
SetGeometry(action, entry, stop, tps) ==
    /\ stop > 0 =>
          /\ IF action = "LONG" THEN stop < entry ELSE stop > entry
          /\ Abs(entry - stop) * 1000 >= 3 * entry
          /\ Abs(entry - stop) * 100 <= 20 * entry
    /\ (Len(tps) > 0 /\ tps[1] > 0) =>
          IF action = "LONG" THEN tps[1] > entry ELSE tps[1] < entry

\* every opening order sent satisfies geometry G against its reference
\* price, and a Decision that does not satisfy G leaves no order, no pending
\* limit order and no new Position
GeometryEnforced(G(_, _, _, _)) ==
    /\ \A i \in Idx :
          IsOpeningOrder(trace[i]) =>
             /\ trace[i].req.entry = RefPrice(decision)
             /\ G(trace[i].req.action, trace[i].req.entry,
                  trace[i].req.raw_stop_loss, trace[i].req.raw_take_profit)
    /\ (/\ lastOp = "open"
        /\ ~G(decision.action, RefPrice(decision), decision.stop_loss,
              decision.take_profit))
         => /\ \A i \in Idx : ~IsOpeningOrder(trace[i])
            /\ pending_limit_orders = << >>
            /\ exOrders = {}
            /\ PositionNotCreated

WrongSideStop(d) ==
    IF d.action = "LONG" THEN d.stop_loss >= RefPrice(d)
    ELSE d.stop_loss <= RefPrice(d)

\* successful trades counted so far: the closes the exchange accepted
AcceptedCloses == Cardinality({i \in Idx : IsAcceptedClose(trace[i])})

SwitchClosesBeforeOpening ==
    \A i, j \in Idx :
        (/\ i < j
         /\ trace[i].op = "call_close"
         /\ trace[i].reason = "switch"
         /\ IsOpeningOrder(trace[j]))
          => \E k \in (i + 1)..(j - 1) :
                \/ IsAcceptedClose(trace[k])
                \/ trace[k].op = "no_position" /\ trace[k].replied

\* the Decision asks for another symbol or the other side than the one held
AsksForSwitch(e) ==
    /\ e.op = "execute"
    /\ e.action \in {"LONG", "SHORT"}
    /\ e.held # None
    /\ \/ e.held_symbol # e.target
       \/ e.held = "Buy" /\ e.action = "SHORT"
       \/ e.held = "Sell" /\ e.action = "LONG"

(* C6: a Decision for another symbol or for the opposite side of the held  *)
(* Position, a LONG against a held Sell as much as a SHORT against a held  *)
(* Buy, has _close_position called before _open_position.                   *)
SwitchDetectedBothWays ==
    \A i, j \in Idx :
        (i < j /\ AsksForSwitch(trace[i]) /\ trace[j].op = "call_open")
          => \E k \in (i + 1)..(j - 1) : trace[k].op = "call_close"

(* C7: an accepted Market order creates the Position and adds no pending   *)
(* limit order; an accepted Limit order adds exactly one pending limit     *)
(* order under the returned order id and creates no Position; a failed     *)
(* submission creates neither.                                              *)
OpenCreatesOneLifecycleObject ==
    [][(pc = "open" /\ lastOp' = "open") =>
        LET n == Len(trace')
            last == trace'[n]
            accepted == IsOpeningOrder(last) /\ last.id # NoOrderId
            refreshed == {i \in (Len(trace) + 1)..n : trace'[i].op = "refresh"}
            \* the Position fields before the order went out
            before == IF refreshed = {}
                        THEN <<current_position, current_symbol>>
                        ELSE LET r == trace'[CHOOSE i \in refreshed : TRUE]
                             IN  <<r.held, r.held_symbol>>
        IN
        IF accepted /\ last.req.order_type = "Market"
          THEN /\ current_position' = last.req.side
               /\ current_symbol' = decision.target_symbol
               /\ pending_limit_orders' = pending_limit_orders
        ELSE IF accepted
          THEN /\ last.id \notin DOMAIN pending_limit_orders
               /\ DOMAIN pending_limit_orders' =
                    DOMAIN pending_limit_orders \cup {last.id}
               /\ \A id \in DOMAIN pending_limit_orders :
                     pending_limit_orders'[id] = pending_limit_orders[id]
               /\ <<current_position', current_symbol'>> = before
        ELSE /\ pending_limit_orders' = pending_limit_orders
             /\ <<current_position', current_symbol'>> = before
    ]_vars

Clamp(x, lo, hi) == IF x < lo THEN lo ELSE IF x > hi THEN hi ELSE x

(* C8: for every LONG/SHORT Decision executed the order is sized, before   *)
(* rounding, as notional = balance x clamp(fraction, 3%, 30%) x            *)
(* clamp(leverage, 1, 15) and quantity = notional / price; balance 1000,   *)
(* fraction 0.10, leverage 10, price 50,000 give notional 1000 and         *)
(* quantity 0.02.                                                           *)
SizingIsClampedProduct ==
    \A i \in Idx :
        trace[i].op = "sizing" =>
           LET e == trace[i]
               fraction == Clamp(decision.position_size, 30, 300)
               lev == Clamp(decision.leverage, 1, 15)
           IN  /\ e.position_value = e.balance * fraction * lev
               \* quantity = notional / price, as the fraction num / den
               /\ e.qty_num = e.position_value * 100
               /\ e.qty_den = e.price
               /\ (/\ e.balance = 1000
                   /\ decision.position_size = 100
                   /\ decision.leverage = 10
                   /\ e.price = 5000000)
                    => /\ e.position_value = 1000 * 1000
                       /\ e.qty_num = 20 * e.qty_den

\* an order was sized and sent for a Decision whose fraction and leverage
\* are both above their ranges
OversizedDecisionSized ==
    /\ lastOp = "open"
    /\ decision.position_size > 300
    /\ decision.leverage > 15
    /\ \E i \in Idx : trace[i].op = "sizing"
    /\ \E i \in Idx : IsOpeningOrder(trace[i]) /\ trace[i].id # NoOrderId

\* what the log of an iteration shows when the protection check tripped
TripEndsIteration ==
    /\ \A i \in Idx :
          trace[i].op = "guard_trip" =>
             /\ pc = "cooldown"
             /\ trace[i].held # None =>
                   (i < Len(trace) /\ trace[i + 1].op = "call_close")
             /\ \A j \in Idx :
                   j > i => /\ trace[j].op # "ask_decision"
                            /\ ~(trace[j].op = "place"
                                 /\ ~trace[j].req.reduce_only)
    /\ \A j \in Idx :
          trace[j].op = "ask_decision" =>
             \E i \in 1..(j - 1) : trace[i].op = "guard_ok"

(* C9: when the protection check trips, the iteration calls the forced     *)
(* close of the held Position (if any), waits the 10-minute cool-down, and *)
(* asks the policy for no Decision and sends no opening order before the   *)
(* next iteration starts; in every iteration the policy is asked only      *)
(* after the check has passed.                                              *)
GuardTripCoolsDown ==
    [][/\ TripEndsIteration'
       /\ pc = "cooldown" =>
             /\ pc' = "top"
             /\ now' = now + 10
             /\ UNCHANGED <<engineVars, exchangeVars>>
    ]_vars

\* the check tripped on a held Position, which was closed, and the loop is
\* in its cool-down
TrippedAndClosed ==
    /\ pc = "cooldown"
    /\ \E i, j \in Idx :
          /\ i < j
          /\ trace[i].op = "guard_trip"
          /\ trace[i].held # None
          /\ IsAcceptedClose(trace[j])

\* the reasons that name a stop
StopReasons == {"stop_loss"}

(* C10: a close whose reason names a stop appends exactly one timestamp to *)
(* recent_stop_losses; a close with any other reason appends none.          *)
StopCloseIsRecorded ==
    [][(pc = "close" /\ lastOp' = "close") =>
        LET n == Len(trace')
            closed == /\ n >= 2
                      /\ IsAcceptedClose(trace'[n])
                      /\ trace'[n - 1].op = "call_close"
        IN  IF closed /\ trace'[n - 1].reason \in StopReasons
              THEN recent_stop_losses' = Append(recent_stop_losses, now)
              ELSE recent_stop_losses' = recent_stop_losses
    ]_vars

\* the timestamps of `stops` inside the window of four hours that ends at t
InWindow(stops, t) ==
    {k \in 1..Len(stops) : stops[k] > t - 240 /\ stops[k] <= t}

\* a check triggers exactly on three timestamps or more inside the window,
\* and leaves the list with the timestamps it had inside the window
CheckCountsWindow ==
    \A i \in Idx :
        trace[i].op = "check_stops" =>
           /\ trace[i].result = (Cardinality(InWindow(trace[i].before, trace[i].at)) >= 3)
           /\ lastOp = "check_stops" =>
                 /\ recent_stop_losses =
                      SelectSeq(trace[i].before, LAMBDA x : x > trace[i].at - 240)
                 /\ \A k \in 1..Len(recent_stop_losses) :
                       recent_stop_losses[k] > now - 240

\* the list holds only timestamps newer than now - 4h
WindowHoldsOnlyRecent ==
    \A k \in 1..Len(recent_stop_losses) : recent_stop_losses[k] > now - 240

(* C11, as claimed: the detector triggers exactly on three recorded         *)
(* timestamps or more inside the trailing 4-hour window, a timestamp four  *)
(* hours old or older is pruned by the check, and after any sequence of    *)
(* record_stop_loss / check_consecutive_stops calls the list holds only    *)
(* timestamps newer than now - 4h.                                          *)
StopWindowAlwaysPruned ==
    /\ CheckCountsWindow
    /\ lastOp \in {"record_stop", "check_stops"} => WindowHoldsOnlyRecent

(* C11, as the code has it: the detector triggers exactly on three         *)
(* recorded timestamps or more inside the trailing 4-hour window ending at *)
(* the check; the check prunes every timestamp four hours old or older, so *)
(* after a check the list holds only timestamps newer than now - 4h, and a *)
(* pruned timestamp never comes back; record_stop_loss appends the time of *)
(* the call and prunes nothing.                                             *)
StopWindowPrunedByCheck ==
    [][/\ CheckCountsWindow'
       /\ lastOp' = "record_stop" =>
             recent_stop_losses' = Append(recent_stop_losses, now)
       /\ \A k \in 1..Len(recent_stop_losses') :
             \/ \E j \in 1..Len(recent_stop_losses) :
                   recent_stop_losses'[k] = recent_stop_losses[j]
             \/ lastOp' = "record_stop" /\ recent_stop_losses'[k] = now
    ]_vars

\* a check triggered on three timestamps and pruned an older one
TriggeredAfterPruning ==
    /\ lastOp = "check_stops"
    /\ trace[1].result
    /\ Len(trace[1].before) > Len(recent_stop_losses)

\* the symbols whose latest 15m candle closed more than 5% under its open
DroppedOverFivePct(data) ==
    {s \in DOMAIN data : data[s].close * 100 < 95 * data[s].open}

DailyLossHaltsOpening ==
    [][daily_loss_seen =>
         \A i \in (Len(trace) + 1)..Len(trace') : ~IsOpeningOrder(trace'[i])
    ]_vars

\* the policy was asked about a timed-out order and answered `answer`
AskedAbout(e, answer) == e.op = "ask_limit" /\ e.answer = answer

\* what the log shows of an order the policy said to keep waiting for: the
\* order is still monitored as it was, and no request followed the answer
WaitingOrderKept ==
    \A i \in Idx :
        AskedAbout(trace[i], "continue_wait") =>
           /\ trace[i].id \in DOMAIN pending_limit_orders
           /\ pending_limit_orders[trace[i].id] = trace[i].info
           /\ i < Len(trace) => trace[i + 1].op \notin {"cancel", "place"}

(* C14: when a timed-out pending limit order is re-evaluated and the       *)
(* answer is continue_wait, the order stays in the pending set under the   *)
(* same id with the same price, quantity and creation time, and the        *)
(* re-evaluation sends no cancel and no order to the exchange.              *)
ContinueWaitChangesNothing ==
    [][/\ WaitingOrderKept'
       /\ (/\ Len(trace') = Len(trace) + 1
           /\ AskedAbout(trace'[Len(trace')], "continue_wait"))
            => /\ pending_limit_orders' = pending_limit_orders
               /\ orders_to_remove' = orders_to_remove
               /\ UNCHANGED exchangeVars
    ]_vars

\* the re-evaluation of a timed-out order ended with the order kept waiting
KeptWaitingAfterTimeout ==
    /\ pc = "data"
    /\ \E i \in Idx :
          /\ AskedAbout(trace[i], "continue_wait")
          /\ now - trace[i].info.create_time >= 5
          /\ trace[i].id \in DOMAIN pending_limit_orders

\* the ids of the orders resting on the exchange
RestingIds(orders) == {o.id : o \in orders}

(* C15: when the answer for a timed-out order is modify(new_price), the    *)
(* old order is cancelled on the exchange before the replacement goes out, *)
(* the replacement is a limit order of the same symbol, side and quantity  *)
(* at new_price, afterwards the pending set tracks the replacement in      *)
(* place of the old order with its age reset, and the old and the new      *)
(* order never both rest on the exchange, a failed cancel included.         *)
ModifyReplacesOrder ==
    [][(/\ Len(trace') > Len(trace)
        /\ AskedAbout(trace'[Len(trace) + 1], "modify"))
        => LET a == trace'[Len(trace) + 1]
               sent == {j \in (Len(trace) + 2)..Len(trace') :
                          trace'[j].op = "place"}
           IN  \A j \in sent :
                  LET r == trace'[j].req
                  IN  /\ \E k \in (Len(trace) + 2)..(j - 1) :
                            /\ trace'[k].op = "cancel"
                            /\ trace'[k].id = a.id
                            /\ trace'[k].ok
                      /\ r.order_type = "Limit"
                      /\ r.symbol = a.info.symbol
                      /\ r.side = a.info.side
                      /\ r.qty = a.info.qty
                      /\ a.new_price # 0 => r.price = a.new_price
                      /\ trace'[j].id # NoOrderId =>
                            /\ DOMAIN pending_limit_orders' =
                                 (DOMAIN pending_limit_orders \ {a.id})
                                   \cup {trace'[j].id}
                            /\ pending_limit_orders'[trace'[j].id].create_time = now
                            /\ ~({a.id, trace'[j].id} \subseteq RestingIds(exOrders'))
    ]_vars

(* C16: when the answer for a timed-out order is cancel_and_market, the    *)
(* limit order is cancelled and a market order of the same symbol, side    *)
(* and quantity goes out with the Decision's stop-loss and take-profit,    *)
(* and an accepted one leaves the engine holding that Position; when the   *)
(* answer is cancel, the cancel is requested and no order goes out; the    *)
(* market order is never sent unless the cancel succeeded.                  *)
CancelAndMarketIsEquivalent ==
    [][(/\ Len(trace') > Len(trace)
        /\ trace'[Len(trace) + 1].op = "ask_limit"
        /\ trace'[Len(trace) + 1].answer \in {"cancel_and_market", "cancel"})
        => LET a == trace'[Len(trace) + 1]
               new == (Len(trace) + 2)..Len(trace')
               sent == {j \in new : trace'[j].op = "place"}
               cancelled == \E k \in new : /\ trace'[k].op = "cancel"
                                            /\ trace'[k].id = a.id
                                            /\ trace'[k].ok
           IN  /\ \E k \in new : trace'[k].op = "cancel" /\ trace'[k].id = a.id
               /\ sent # {} => cancelled
               /\ a.answer = "cancel" => sent = {}
               /\ (a.answer = "cancel_and_market" /\ cancelled) => sent # {}
               /\ \A j \in sent :
                     LET r == trace'[j].req
                     IN  /\ r.order_type = "Market"
                         /\ r.symbol = a.info.symbol
                         /\ r.side = a.info.side
                         /\ r.qty = a.info.qty
                         /\ ~r.reduce_only
                         /\ r.stop_loss = a.info.stop_loss
                         /\ (Len(a.info.take_profit) > 0 =>
                               r.take_profit = a.info.take_profit[1])
                         /\ trace'[j].id # NoOrderId =>
                               /\ current_position' = a.info.side
                               /\ current_symbol' = a.info.ai_symbol
    ]_vars

PushedStopsNeverWorsen ==
    \A i \in Idx :
        trace[i].op = "set_trading_stop" =>
           \/ trace[i].old_stop = 0
           \/ trace[i].side = "Buy" /\ trace[i].stop_loss >= trace[i].old_stop
           \/ trace[i].side = "Sell" /\ trace[i].stop_loss <= trace[i].old_stop

\* the conditions of a push, as the step's contract words them: the profit
\* has reached ATR x 1.0 and the candidate, price -/+ ATR x 1.5, improves on
\* the stop the exchange holds (or the exchange holds none)
CandidateImproves(side, entry, stop, price, atr) ==
    IF side = "Buy"
      THEN /\ price - entry >= atr
           /\ (stop = 0 \/ price - (atr * 3) \div 2 > stop)
      ELSE /\ entry - price >= atr
           /\ (stop = 0 \/ price + (atr * 3) \div 2 < stop)

PeakUpTo(t, i) ==
    LET shown == {0} \cup {t[j].balance : j \in 1..i}
    IN  CHOOSE m \in shown : \A x \in shown : x <= m

\* the i-th balance shown is a new peak
NewPeakAt(t, i) == t[i].balance > PeakUpTo(t, i - 1)

\* the i-th balance shown lies 10% or more under the peak so far
DeepAt(t, i) ==
    /\ PeakUpTo(t, i) > 0
    /\ (PeakUpTo(t, i) - t[i].balance) * 100 >= 10 * PeakUpTo(t, i)

\* the i-th is the first such balance since the last new peak
FirstDeepSincePeak(t, i) ==
    /\ DeepAt(t, i)
    /\ \A j \in 1..(i - 1) :
          DeepAt(t, j) => \E k \in (j + 1)..(i - 1) : NewPeakAt(t, k)

(* C19: over the balances shown to the drawdown watchdog by the loop and   *)
(* after a close, the self-review is requested exactly at the first        *)
(* balance 10% or more under the peak since the last new peak; the         *)
(* already-triggered flag is set exactly from such a request until the     *)
(* next strictly higher peak, and peak_balance is the highest balance      *)
(* shown and never decreases.                                              *)
DrawdownReviewOncePerPeak ==
    [][/\ \A i \in 1..Len(trace') :
             trace'[i].review <=> FirstDeepSincePeak(trace', i)
       /\ peak_balance' = PeakUpTo(trace', Len(trace'))
       /\ peak_balance' >= peak_balance
       /\ (drawdown_analysis_triggered /\ ~drawdown_analysis_triggered')
             => peak_balance' > peak_balance
       /\ (~drawdown_analysis_triggered /\ drawdown_analysis_triggered')
             => /\ Len(trace') = Len(trace) + 1
                /\ trace'[Len(trace')].review]_vars

\* a review at exactly 10%, none at the next deep balance, and a second
\* review under a higher peak
ReviewedAgainAfterHigherPeak ==
    \E i, j, k \in 1..Len(trace) :
        /\ i < j /\ j < k
        /\ trace[i].review
        /\ DeepAt(trace, j) /\ ~trace[j].review
        /\ trace[k].review
        /\ (PeakUpTo(trace, k) - trace[k].balance) * 10 = PeakUpTo(trace, k)

\* n is a multiple of step and no multiple of step lies nearer to num / den
NearestMultiple(n, num, den, step) ==
    /\ n % step = 0
    /\ \A m \in {n - step, n + step} :
          Abs(n * den - num) <= Abs(m * den - num)

\* result is a nearest multiple of step to num / den, clamped to [lo, hi],
\* and itself a multiple of step
RoundedAndClamped(result, num, den, step, lo, hi) ==
    /\ result % step = 0
    /\ lo <= result /\ result <= hi
    /\ \E k \in (num \div (den * step))..(num \div (den * step) + 1) :
          /\ NearestMultiple(k * step, num, den, step)
          /\ result = Clamp(k * step, lo, hi)

(* C20: under every rule set the formatted price is the multiple of        *)
(* tick_size nearest to the input, clamped to [min_price, max_price], and  *)
(* the formatted quantity the multiple of qty_step nearest to the input,   *)
(* clamped to [min_qty, max_qty]; the result is an exact multiple of the   *)
(* tick or step, also for a tick or step of 1 or more.                     *)
FormattedIsNearestMultipleInRange ==
    \A i \in Idx :
        LET e == trace[i]
            rules == trace[1].rules
        IN  /\ e.op = "format_price" =>
                  RoundedAndClamped(e.result, e.price, 1, rules.tick_size,
                                    rules.min_price, rules.max_price)
            /\ e.op = "format_quantity" =>
                  RoundedAndClamped(e.result, e.num, e.den, rules.qty_step,
                                    rules.min_order_qty, rules.max_order_qty)

\* the same, for the rule sets whose tick and step are below 1
FormattedIsNearestBelowOne ==
    \A i \in Idx :
        LET e == trace[i]
            rules == trace[1].rules
        IN  /\ (e.op = "format_price" /\ rules.tick_size < PriceScale) =>
                  RoundedAndClamped(e.result, e.price, 1, rules.tick_size,
                                    rules.min_price, rules.max_price)
            /\ (e.op = "format_quantity" /\ rules.qty_step < QtyScale) =>
                  RoundedAndClamped(e.result, e.num, e.den, rules.qty_step,
                                    rules.min_order_qty, rules.max_order_qty)

SignedTuple(e) == <<e.timestamp, e.api_key, e.recv_window, e.params_str>>

\* in how many of the four components two signed requests differ
TupleDistance(e, f) ==
    Cardinality({c \in 1..4 : SignedTuple(e)[c] # SignedTuple(f)[c]})

\* the same dict, whatever the order its items were inserted in
SameDict(p, q) ==
    {p[i] : i \in 1..Len(p)} = {q[i] : i \in 1..Len(q)}

TimestampOutOfWindow(reply) == reply.kind = "json" /\ reply.retCode = 10004

(* C23: for one operation of the protocol client, a timestamp-out-of-      *)
(* window answer makes the client resync its clock and retry exactly once; *)
(* for every other outcome it sends exactly one request and does not       *)
(* resync; no operation sends more than two requests.                      *)
RetriesOnceOnTimestampOnly ==
    \A i \in Idx :
        trace[i].op = "send_request" =>
            /\ trace[i].requests <= 2
            /\ IF TimestampOutOfWindow(trace[i].reply)
                 THEN trace[i].requests = 2 /\ trace[i].resyncs = 1
                 ELSE trace[i].requests = 1 /\ trace[i].resyncs = 0

\* the reply is neither OK nor one of the two business-expected answers
FailedReply(reply) ==
    \/ reply.kind \in {"timeout", "http_error", "bad_json"}
    \/ /\ reply.kind = "json"
       /\ reply.retCode \notin {0, 110043}
       /\ ~reply.zero_position

(* C24: a 'leverage already at target' reply (110043) makes set_leverage   *)
(* report success; a 'zero position' reply makes set_trading_stop report   *)
(* something the caller can tell from a failed call; every other non-OK    *)
(* reply is reported as a failure by both.                                  *)
ExpectedRepliesAreNotFailures ==
    \A i, j \in Idx :
        LET e == trace[i]
            f == trace[j]
        IN  /\ (e.op = "set_leverage" /\ e.reply.retCode = 110043)
                  => e.returned = TRUE
            /\ (e.op \in {"set_leverage", "set_trading_stop"}
                   /\ FailedReply(e.reply)) => e.returned = FALSE
            /\ (/\ e.op = "set_trading_stop" /\ f.op = "set_trading_stop"
                 /\ e.reply.zero_position
                 /\ FailedReply(f.reply)) => e.returned # f.returned

\* the step adds an event named opname to the log
Added(opname) ==
    /\ Len(trace') > Len(trace)
    /\ \E i \in (Len(trace) + 1)..Len(trace') : trace'[i].op = opname

\* the step sends an order that is not reduce-only
AddedOpeningOrder ==
    /\ Len(trace') > Len(trace)
    /\ \E i \in (Len(trace) + 1)..Len(trace') :
          /\ trace'[i].op = "place"
          /\ ~trace'[i].req.reduce_only

(* C25: once the stop flag is set the loop starts no new iteration, sends  *)
(* no new request to the policy and submits no new opening order.          *)
NoNewWorkAfterStop ==
    [][~is_running =>
         /\ ~(pc = "top" /\ pc' = "pending")
         /\ ~Added("ask_decision")
         /\ ~AddedOpeningOrder]_vars

\* once the stop flag is set the loop starts no new iteration
NoNewIterationAfterStop ==
    [][~is_running => ~(pc = "top" /\ pc' = "pending")]_vars

(* C26: the Position fields and the pending-limit-order set are written    *)
(* only by the trading-loop thread: a step of the monitoring thread        *)
(* (get_status) leaves them as they were.                                  *)
OnlyTheLoopWritesPosition ==
    [][lastOp' = "get_status" =>
         UNCHANGED <<current_position, current_symbol,
                     pending_limit_orders>>]_vars

\* step 2 (_get_position_info) drops the Position although the exchange
\* still holds it: no reply lists it as flat, so the positions query failed
RefreshDropsHeldPosition ==
    /\ pc = "data" /\ pc' = "guard"
    /\ current_position # None
    /\ current_symbol # None
    /\ exPos[ToBybit(current_symbol)].size > 0
    /\ current_position' = None

\* step 0 marks a pending order as done without having asked the policy,
\* although the order still rests on the exchange: no reply misses it, so
\* the open-orders query failed
PendingTakenForFilledWhileOpen ==
    /\ pc = "pending"
    /\ trace' = trace
    /\ \E id \in orders_to_remove' \ orders_to_remove :
          \E o \in exOrders : o.id = id

(* C27: a failed exchange read means no update this cycle: a failed        *)
(* positions query in _get_position_info leaves the Position as it was and *)
(* a failed open-orders query in _get_order_status leaves the pending      *)
(* order tracked; a failure is never taken for 'position flat' or for      *)
(* 'order filled'.                                                          *)
FailedReadChangesNothing ==
    [][~RefreshDropsHeldPosition /\ ~PendingTakenForFilledWhileOpen]_vars

(* C28: no orphaned limit orders: outside step 0, every limit order that   *)
(* still rests on the exchange is tracked in pending_limit_orders.         *)
NoOrphanedLimitOrders ==
    pc # "pending" =>
        \A o \in exOrders : o.id \in DOMAIN pending_limit_orders

\* balance x 30% x 15, in quantity units x cents
ExposureCap(balance) ==
    balance * max_position_pct * max_leverage * PriceScale

\* quantity x the sizing price is over the cap by no more than one step
WithinCapPlusOneStep ==
    \A i, j \in Idx :
        (trace[i].op = "sizing" /\ IsOpeningOrder(trace[j])) =>
            LET q == trace[j].req.qty
                step == trading_rules(trace[j].req.symbol).qty_step
            IN  \* (q - step) x price <= cap
                q - step <= ExposureCap(trace[i].balance) \div trace[i].price

\* the order of trace[j], sized in trace[i], is one whose quantity rounded
\* to below min_order_qty and was raised to it
RaisedToMinimum(i, j) ==
    LET rules == trading_rules(trace[j].req.symbol)
        unraised == FormatQuantityBy([rules EXCEPT !.min_order_qty = 0],
                                     trace[i].qty_num, trace[i].qty_den)
    IN  /\ trace[i].op = "sizing"
        /\ IsOpeningOrder(trace[j])
        /\ unraised < rules.min_order_qty
        /\ trace[j].req.qty = rules.min_order_qty

\* no quantity raised to min_order_qty is submitted with a value over the cap
MinimumNeverLiftsOverCap ==
    \A i, j \in Idx :
        RaisedToMinimum(i, j) =>
            trace[j].req.qty <= ExposureCap(trace[i].balance) \div trace[i].price

(* C29: for every opening order _open_position submits, quantity x the     *)
(* price it was sized at exceeds balance x 30% x 15 by no more than one    *)
(* quantity step, and no too-small quantity is raised to min_order_qty and *)
(* submitted with a value over balance x 30% x 15.                         *)
ExposureCapSurvivesRounding ==
    /\ WithinCapPlusOneStep
    /\ MinimumNeverLiftsOverCap

\* start() is refused while RUNNING or STARTING, and creates no thread then
StartRefusedWhileUp ==
    \A t \in ThreadIds :
        threads[t].phase # "unborn" =>
            threads[t].entered \notin {RUNNING, STARTING}

\* at most one trading thread is alive
AtMostOneTradingThread == Cardinality(AliveThreads) <= 1

\* no trading thread is alive while the state is STOPPED
StoppedMeansNoThread == state = STOPPED => AliveThreads = {}

(* C30: after any interleaving of start(), stop() and restart() calls on  *)
(* one manager, at most one trading thread is alive; whenever the state   *)
(* is STOPPED no trading thread is alive; and no thread was created by a  *)
(* start() that was called while the state was RUNNING or STARTING.       *)
ManagerLifecycle ==
    /\ AtMostOneTradingThread
    /\ StoppedMeansNoThread
    /\ StartRefusedWhileUp

====
